---- MODULE Spec2Model ----
(***************************************************************************)
(* Job-Search-App: text cleaning, section identification and chunking      *)
(* (src/src/job_search/ml/text_processing.py) and chunk aggregation and    *)
(* filtering at query time (src/src/job_search/core/search.py).            *)
(*                                                                         *)
(* A Python str is a sequence of characters.  A character is a one-element *)
(* TLA+ string; a few longer strings ("to", "apply", "Responsibilities",   *)
(* "w1", ...) stand for a whole run of letters, so that texts of several   *)
(* words stay short.  CharLen gives the number of Python characters such   *)
(* an atom stands for.                                                     *)
(*                                                                         *)
(* A Python float score is a fixed-point integer: ONE stands for 1.0 and   *)
(* every product and quotient the code forms is exact in these units.      *)
(***************************************************************************)
EXTENDS Integers, Sequences, FiniteSets, TLC

VARIABLES
    pc,               \* position of the call under study: "start", "done", "raised"
    text,             \* create_chunks: the text argument
    strategy,         \* create_chunks: the strategy argument
    processor,        \* AdvancedTextProcessor instance (its three size fields)
    chunks,           \* create_chunks: the returned list
    raw_text,         \* clean_text: the text argument
    cleaned,          \* clean_text: the returned string
    jobs,             \* _filter_jobs: the jobs argument
    request,          \* _filter_jobs: the request argument
    filtered_jobs,    \* _filter_jobs: the returned list
    chunk_results,    \* _aggregate_chunks_to_jobs: the chunk_results argument
    aggregated_jobs,  \* _aggregate_chunks_to_jobs: the returned list
    model,            \* JobReranker.model: how the cross-encoder behaves
    top_k,            \* rerank_jobs: the top_k argument
    reranked_results, \* rerank_jobs: the returned list
    final_results,    \* _format_results: the returned list
    batch_size,       \* embed_and_index: the batch_size argument
    all_chunks,       \* embed_and_index: the chunks of all jobs
    position,         \* embed_and_index: chunks of all_chunks the loop has taken
    vectors_batch,    \* embed_and_index: the vectors waiting for the next upsert
    upserts,          \* the calls of index.upsert so far, each with its vectors
    failed_chunks,    \* the chunks whose get_embedding call raised
    found_sections,   \* identify_sections: the returned dict
    salary_info,      \* extract_salary_regex: the returned dict
    quality_score,    \* _calculate_chunk_quality: the returned score
    window_start,     \* the window loops of the chunkers: start, first word of the window
    next_chunk_index, \* _create_overlapping_chunks: chunk_index of the next chunk
    next_sub_index,   \* _split_long_section: sub_index of the next part
    section_i,        \* _create_section_chunks: index of the section under work
    users             \* the users collection: user_id -> the saved_jobs list

rerankVars == <<model, top_k, reranked_results, final_results>>

indexVars == <<batch_size, all_chunks, position, vectors_batch, upserts, failed_chunks>>

loopVars == <<window_start, next_chunk_index, next_sub_index, section_i>>

otherVars == <<salary_info, quality_score, loopVars, users>>

vars == <<pc, text, strategy, processor, chunks, raw_text, cleaned,
          jobs, request, filtered_jobs, chunk_results, aggregated_jobs,
          rerankVars, indexVars, found_sections, otherVars>>

(***************************************************************************)
(* Bounds of the model                                                     *)
(***************************************************************************)
MaxLines == 3          \* lines of a text handed to create_chunks
MaxLineWords == 2      \* words on one content line
MaxChunkWords == 4     \* largest max_chunk_size
MaxMinChunk == 2       \* largest min_chunk_size
MaxPieces == 3         \* pieces of a raw text handed to clean_text
MaxJobs == 2           \* jobs handed to _filter_jobs
MaxHits == 3           \* chunk hits handed to _aggregate_chunks_to_jobs
MaxCandidates == 52    \* jobs of a long list handed to _filter_jobs
MaxRerank == 3         \* candidates handed to rerank_jobs
MaxTopK == 4           \* largest top_k
MaxJobChunks == 2      \* chunks process_job_text returns for one job
MaxBatch == 3          \* largest batch_size
MaxSectionLines == 5   \* lines of a text handed to identify_sections
MaxExampleMin == 4     \* largest min_chunk_size tried on the example texts
MaxSentences == 3      \* sentences of a raw text handed to clean_text
MaxSalaryPieces == 3   \* pieces of a text handed to extract_salary_regex
MaxQualityPieces == 3  \* pieces of a text handed to _calculate_chunk_quality
MaxLoopLines == 2      \* lines of a text whose chunking is followed step by step
MaxLoopSize == 3       \* largest max_chunk_size of a processor followed step by step
MaxCalls == 3          \* concurrent requests to save a job
MaxSavedIds == 2       \* job ids the requests choose from

RECURSIVE Factorial(_)
Factorial(n) == IF n <= 1 THEN 1 ELSE n * Factorial(n - 1)

\* 1.0 in score units; divisible by 100 and by 10 * n for every group size n
ONE == 100 * Factorial(MaxHits + 1)

Min(a, b) == IF a <= b THEN a ELSE b
Max(a, b) == IF a >= b THEN a ELSE b

NoneStr == "None"      \* Python None in a string-valued field

(***************************************************************************)
(* Python str helpers                                                      *)
(***************************************************************************)
IsSpace(c) == c \in {" ", "\n", "\t"}

\* characters of the model that are not \w
NonWordChars ==
    {" ", "\n", "\t", "<", ">", "&", ";", ":", ".", "-", "*", "=", "#", "!", "?", "bullet"}

IsWordChar(c) == c \notin NonWordChars

\* number of Python characters an element of a text stands for
CharLen(c) ==
    CASE c = "to" -> 2
      [] c = "apply" -> 5
      [] c = "lt" -> 2
      [] c = "gt" -> 2
      [] c = "amp" -> 3
      [] c = "Responsibilities" -> 16
      [] c = "Requirements" -> 12
      [] c = "Skills" -> 6
      [] c = "Benefits" -> 8
      [] c = "Company" -> 7
      [] c = "Location" -> 8
      [] c = "Build" -> 5
      [] c = "APIs" -> 4
      [] c = "and" -> 3
      [] c = "ship" -> 4
      [] c = "features" -> 8
      [] c = "years" -> 5
      [] c = "Python" -> 6
      [] c = "experience" -> 10
      [] c = "required" -> 8
      [] c = "skills" -> 6
      [] c = "responsibilities" -> 16
      [] c = "qualifications" -> 14
      [] OTHER -> 1

RECURSIVE StrLen(_)
StrLen(s) == IF s = <<>> THEN 0 ELSE CharLen(Head(s)) + StrLen(Tail(s))

RECURSIVE LStrip(_)
LStrip(s) == IF s = <<>> \/ ~IsSpace(Head(s)) THEN s ELSE LStrip(Tail(s))

RECURSIVE RStrip(_)
RStrip(s) ==
    IF s = <<>> \/ ~IsSpace(s[Len(s)]) THEN s ELSE RStrip(SubSeq(s, 1, Len(s) - 1))

Strip(s) == RStrip(LStrip(s))

\* str.split(sep): the pieces between occurrences of sep, empty pieces kept
RECURSIVE SplitOn(_, _)
SplitOn(s, sep) ==
    IF \A i \in 1..Len(s) : s[i] # sep THEN <<s>>
    ELSE LET k == CHOOSE i \in 1..Len(s) :
                      s[i] = sep /\ \A j \in 1..(i - 1) : s[j] # sep
         IN  <<SubSeq(s, 1, k - 1)>> \o SplitOn(SubSeq(s, k + 1, Len(s)), sep)

\* str.split(): the maximal runs of non-whitespace characters
RECURSIVE Words(_)
Words(s) ==
    LET t == LStrip(s) IN
    IF t = <<>> THEN <<>>
    ELSE LET k == IF \E i \in 1..Len(t) : IsSpace(t[i])
                  THEN CHOOSE i \in 1..Len(t) :
                           IsSpace(t[i]) /\ \A j \in 1..(i - 1) : ~IsSpace(t[j])
                  ELSE Len(t) + 1
         IN  <<SubSeq(t, 1, k - 1)>> \o Words(SubSeq(t, k, Len(t)))

\* sep.join(parts)
RECURSIVE Join(_, _)
Join(parts, sep) ==
    IF parts = <<>> THEN <<>>
    ELSE IF Len(parts) = 1 THEN parts[1]
    ELSE parts[1] \o sep \o Join(Tail(parts), sep)

\* needle in haystack
IsSubstr(needle, haystack) ==
    \E i \in 0..(Len(haystack) - Len(needle)) :
        SubSeq(haystack, i + 1, i + Len(needle)) = needle

\* str.lower(), on the characters and atoms of the model
Lower(c) ==
    CASE c = "A" -> "a"
      [] c = "B" -> "b"
      [] c = "To" -> "to"
      [] c = "Senior" -> "senior"
      [] c = "Responsibilities" -> "responsibilities"
      [] c = "Requirements" -> "requirements"
      [] c = "Skills" -> "skills"
      [] c = "Benefits" -> "benefits"
      [] c = "Company" -> "company"
      [] c = "Location" -> "location"
      [] c = "K" -> "k"
      [] c = "Salary" -> "salary"
      [] c = "Build" -> "build"
      [] c = "APIs" -> "apis"
      [] c = "Python" -> "python"
      [] OTHER -> c

LowerStr(s) == [i \in 1..Len(s) |-> Lower(s[i])]

(***************************************************************************)
(* _compile_patterns: the boilerplate patterns.  Each is                   *)
(*    (?i)\b.*<phrase>.*?\.                                                *)
(* and is listed here by its phrase: word atoms separated by the regex     *)
(* separators \s+ and [-\s].                                               *)
(***************************************************************************)
SepSpaces == "\\s+"
SepDashOrSpace == "[-\\s]"

boilerplate_patterns ==
    << <<"equal", SepSpaces, "opportunity", SepSpaces, "employer">>,
       <<"we", SepSpaces, "do", SepSpaces, "not", SepSpaces, "discriminate">>,
       <<"committed", SepSpaces, "to", SepSpaces, "diversity">>,
       <<"to", SepSpaces, "apply">>,
       <<"send", SepSpaces, "your", SepSpaces, "resume">>,
       <<"please", SepSpaces, "submit">>,
       <<"apply", SepSpaces, "online">>,
       <<"drug", SepDashOrSpace, "free", SepSpaces, "workplace">>,
       <<"background", SepSpaces, "check">>,
       <<"right", SepSpaces, "to", SepSpaces, "work">>,
       <<"great", SepSpaces, "opportunity", SepSpaces, "to", SepSpaces, "join">>,
       <<"excellent", SepSpaces, "opportunity", SepSpaces, "to", SepSpaces, "join">> >>

\* \b at position p (between s[p] and s[p+1])
WordBoundaryAt(s, p) ==
    LET before == p >= 1 /\ IsWordChar(s[p])
        after  == p < Len(s) /\ IsWordChar(s[p + 1])
    IN  before # after

\* position after the maximal whitespace run that starts at position q
RECURSIVE SkipSpaces(_, _)
SkipSpaces(s, q) ==
    IF q < Len(s) /\ IsSpace(s[q + 1]) THEN SkipSpaces(s, q + 1) ELSE q

\* end position of the phrase matched from position q on, -1 when it does not match
RECURSIVE PhraseEnd(_, _, _)
PhraseEnd(s, q, phrase) ==
    IF phrase = <<>> THEN q
    ELSE IF Head(phrase) = SepSpaces
         THEN IF SkipSpaces(s, q) = q THEN -1
              ELSE PhraseEnd(s, SkipSpaces(s, q), Tail(phrase))
    ELSE IF Head(phrase) = SepDashOrSpace
         THEN IF q < Len(s) /\ (s[q + 1] = "-" \/ IsSpace(s[q + 1]))
              THEN PhraseEnd(s, q + 1, Tail(phrase))
              ELSE -1
    ELSE IF q < Len(s) /\ Lower(s[q + 1]) = Head(phrase)
         THEN PhraseEnd(s, q + 1, Tail(phrase))
         ELSE -1

\* .*?\. from position r: position after the first "." of the line, -1 when there is none
FirstDot(s, r) ==
    LET ds == {e \in (r + 1)..Len(s) :
                  s[e] = "." /\ \A j \in (r + 1)..(e - 1) : s[j] # "\n" /\ s[j] # "."}
    IN  IF ds = {} THEN -1 ELSE CHOOSE e \in ds : TRUE

\* end position of the match of one boilerplate pattern that starts at p, -1 when none:
\* \b, then a greedy .* (the last phrase of the line that still has a "." after it)
MatchEnd(s, p, phrase) ==
    IF ~WordBoundaryAt(s, p) THEN -1
    ELSE LET qs == {q \in p..Len(s) :
                       /\ \A j \in (p + 1)..q : s[j] # "\n"
                       /\ PhraseEnd(s, q, phrase) # -1
                       /\ FirstDot(s, PhraseEnd(s, q, phrase)) # -1}
         IN  IF qs = {} THEN -1
             ELSE LET q == CHOOSE x \in qs : \A y \in qs : y <= x
                  IN  FirstDot(s, PhraseEnd(s, q, phrase))

\* pattern.sub('', s): every non-overlapping match removed, scanning from position pos
RECURSIVE PatternSubFrom(_, _, _)
PatternSubFrom(s, pos, phrase) ==
    LET ps == {p \in pos..Len(s) : MatchEnd(s, p, phrase) # -1} IN
    IF ps = {} THEN SubSeq(s, pos + 1, Len(s))
    ELSE LET p == CHOOSE x \in ps : \A y \in ps : x <= y
         IN  SubSeq(s, pos + 1, p) \o PatternSubFrom(s, MatchEnd(s, p, phrase), phrase)

\* (a text without the first word of the phrase has no match)
PatternSub(s, phrase) ==
    IF \A i \in 1..Len(s) : Lower(s[i]) # Head(phrase) THEN s
    ELSE PatternSubFrom(s, 0, phrase)

\* for pattern in self.boilerplate_patterns: text = pattern.sub('', text)
RECURSIVE RemoveBoilerplate(_, _)
RemoveBoilerplate(s, k) ==
    IF k > Len(boilerplate_patterns) THEN s
    ELSE RemoveBoilerplate(PatternSub(s, boilerplate_patterns[k]), k + 1)

\* removed_length / original_length > 0.7, decided without division
BoilerplateRatioAbove70(s) ==
    IF s = <<>> THEN TRUE
    ELSE LET removed == StrLen(s) - StrLen(RemoveBoilerplate(s, 1))
         IN  10 * removed > 7 * StrLen(s)

(***************************************************************************)
(* _compile_patterns: section headers and low-quality patterns             *)
(***************************************************************************)
AnyChar == "."         \* the regex . inside a header phrase

SectionTypes == <<"responsibilities", "requirements", "benefits", "about", "location">>

\* the alternatives of  (?i)^(...)[\s\:]*$  per section type
section_headers(t) ==
    CASE t = "responsibilities" ->
             { <<"responsibilities">>, <<"duties">>,
               <<"what", SepSpaces, "you", AnyChar, "ll", SepSpaces, "do">>,
               <<"your", SepSpaces, "role">>, <<"job", SepSpaces, "description">> }
      [] t = "requirements" ->
             { <<"requirements">>, <<"qualifications">>,
               <<"what", SepSpaces, "we", AnyChar, "re", SepSpaces, "looking", SepSpaces, "for">>,
               <<"must", SepSpaces, "have">>, <<"preferred">>, <<"skills">> }
      [] t = "benefits" ->
             { <<"benefits">>, <<"perks">>, <<"what", SepSpaces, "we", SepSpaces, "offer">>,
               <<"compensation">>, <<"package">> }
      [] t = "about" ->
             { <<"about", SepSpaces, "us">>,
               <<"about", SepSpaces, "the", SepSpaces, "company">>,
               <<"company">>, <<"overview">> }
      [] t = "location" ->
             { <<"location">>, <<"where">>, <<"office">> }

\* end of a header phrase matched from position q on, -1 when it does not match
RECURSIVE HeaderPhraseEnd(_, _, _)
HeaderPhraseEnd(s, q, phrase) ==
    IF phrase = <<>> THEN q
    ELSE IF Head(phrase) = AnyChar
         THEN IF q < Len(s) /\ s[q + 1] # "\n"
              THEN HeaderPhraseEnd(s, q + 1, Tail(phrase)) ELSE -1
    ELSE IF Head(phrase) = SepSpaces
         THEN IF SkipSpaces(s, q) = q THEN -1
              ELSE HeaderPhraseEnd(s, SkipSpaces(s, q), Tail(phrase))
    ELSE IF q < Len(s) /\ Lower(s[q + 1]) = Head(phrase)
         THEN HeaderPhraseEnd(s, q + 1, Tail(phrase))
         ELSE -1

\* a header pattern without its end anchor: the phrase at the start of the line suffices
HeaderMatchesAtStart(line, t) ==
    \E phrase \in section_headers(t) : HeaderPhraseEnd(line, 0, phrase) # -1

\* pattern.search(line) for the header pattern of type t, on a stripped line
HeaderMatches(line, t) ==
    \E phrase \in section_headers(t) :
        LET r == HeaderPhraseEnd(line, 0, phrase) IN
        /\ r # -1
        /\ \A j \in (r + 1)..Len(line) : IsSpace(line[j]) \/ line[j] = ":"

\* the first section type whose pattern matches, NoneStr when none does
SectionFound(line) ==
    LET ks == {k \in 1..Len(SectionTypes) : HeaderMatches(line, SectionTypes[k])} IN
    IF ks = {} THEN NoneStr
    ELSE SectionTypes[CHOOSE k \in ks : \A j \in ks : k <= j]

Bullets == {"bullet", "-", "*"}      \* "bullet" stands for U+2022
Digits == {"0", "1", "2", "3", "4", "5", "6", "7", "8", "9"}

\* some pattern of self.low_quality_patterns is found in the text (re.search, no MULTILINE)
LowQuality(s) ==
    LET t == Strip(s)
        body == IF s # <<>> /\ s[Len(s)] = "\n" THEN SubSeq(s, 1, Len(s) - 1) ELSE s
    IN  \/ /\ \A i \in 1..Len(s) : s[i] # "\n"
           /\ StrLen(s) <= 20
        \/ /\ \A i \in 1..Len(body) : body[i] # "\n"
           /\ StrLen(body) <= 20
        \/ Len(t) = 1 /\ t[1] \in Bullets
        \/ /\ Len(t) >= 2
           /\ t[Len(t)] = "."
           /\ \A i \in 1..(Len(t) - 1) : t[i] \in Digits
        \/ /\ Len(t) >= 3
           /\ \A i \in 1..Len(t) : t[i] \in {":", "-", "="}

technical_keywords == {"experience", "required", "skills", "responsibilities", "qualifications"}

\* sum(1 for keyword in technical_keywords if keyword.lower() in text.lower())
TechCount(s) ==
    Cardinality({k \in technical_keywords : \E i \in 1..Len(s) : Lower(s[i]) = k})

\* re.search(r'[U+2022\-\*]\s+', text) or re.search(r'\d+\.\s+', text)
HasListMarkup(s) ==
    \/ \E i \in 1..(Len(s) - 1) : s[i] \in Bullets /\ IsSpace(s[i + 1])
    \/ \E i \in 1..(Len(s) - 2) : s[i] \in Digits /\ s[i + 1] = "." /\ IsSpace(s[i + 2])

\* _calculate_chunk_quality without the final min(1.0, score)
ChunkQualityUnclamped(s) ==
    IF s = <<>> THEN 0
    ELSE LET s1 == IF Len(Words(s)) < 20 THEN ONE \div 2 ELSE ONE
             s2 == IF LowQuality(s) THEN (s1 * 7) \div 10 ELSE s1
             s3 == s2 + TechCount(s) * (ONE \div 10)
         IN  IF HasListMarkup(s) THEN s3 + ONE \div 10 ELSE s3

_calculate_chunk_quality(s) ==
    IF s = <<>> THEN 0
    ELSE LET s1 == IF Len(Words(s)) < 20 THEN ONE \div 2 ELSE ONE
             s2 == IF LowQuality(s) THEN (s1 * 7) \div 10 ELSE s1
             s3 == s2 + TechCount(s) * (ONE \div 10)
             s4 == IF HasListMarkup(s) THEN s3 + ONE \div 10 ELSE s3
         IN  Min(ONE, s4)

_filter_chunks(cs, p) ==
    SelectSeq(cs, LAMBDA c :
        /\ ~(c.word_count < p.min_chunk_size)
        /\ ~(10 * c.confidence_score < 3 * ONE)
        /\ ~BoilerplateRatioAbove70(c.text))

(***************************************************************************)
(* identify_sections: a dict is the sequence of its items in insertion     *)
(* order; assigning an existing key keeps its place.                       *)
(***************************************************************************)
\* a variant of the assignment that appends to the value of an existing key
DictSetAppending(d, k, v) ==
    IF \E i \in 1..Len(d) : d[i].key = k
    THEN [i \in 1..Len(d) |->
             IF d[i].key = k THEN [key |-> k, value |-> d[i].value \o <<"\n">> \o v] ELSE d[i]]
    ELSE Append(d, [key |-> k, value |-> v])

DictSet(d, k, v) ==
    IF \E i \in 1..Len(d) : d[i].key = k
    THEN [i \in 1..Len(d) |-> IF d[i].key = k THEN [key |-> k, value |-> v] ELSE d[i]]
    ELSE Append(d, [key |-> k, value |-> v])

SectionContent(current_content) == Strip(Join(current_content, <<"\n">>))

\* ScanLines with current_content not reset when a header starts a new section
RECURSIVE ScanLinesNoReset(_, _, _, _)
ScanLinesNoReset(lines, sections, current_section, current_content) ==
    IF lines = <<>>
    THEN IF current_content # <<>>
         THEN DictSet(sections, current_section, SectionContent(current_content))
         ELSE sections
    ELSE LET line == Strip(Head(lines)) IN
         IF line = <<>>
         THEN ScanLinesNoReset(Tail(lines), sections, current_section, current_content)
         ELSE IF SectionFound(line) # NoneStr
         THEN ScanLinesNoReset(Tail(lines),
                        IF current_content # <<>>
                        THEN DictSet(sections, current_section, SectionContent(current_content))
                        ELSE sections,
                        SectionFound(line), current_content)
         ELSE ScanLinesNoReset(Tail(lines), sections, current_section,
                               Append(current_content, line))

RECURSIVE ScanLines(_, _, _, _)
ScanLines(lines, sections, current_section, current_content) ==
    IF lines = <<>>
    THEN IF current_content # <<>>
         THEN DictSet(sections, current_section, SectionContent(current_content))
         ELSE sections
    ELSE LET line == Strip(Head(lines)) IN
         IF line = <<>>
         THEN ScanLines(Tail(lines), sections, current_section, current_content)
         ELSE IF SectionFound(line) # NoneStr
         THEN ScanLines(Tail(lines),
                        IF current_content # <<>>
                        THEN DictSet(sections, current_section, SectionContent(current_content))
                        ELSE sections,
                        SectionFound(line), <<>>)
         ELSE ScanLines(Tail(lines), sections, current_section, Append(current_content, line))

identify_sections(s) == ScanLines(SplitOn(s, "\n"), <<>>, "summary", <<>>)

(***************************************************************************)
(* TextChunk and the chunking strategies                                   *)
(***************************************************************************)
TextChunk(t, type, index, job_id, wc, ostart, oend, conf, header) ==
    [text |-> t, chunk_type |-> type, chunk_index |-> index, parent_job_id |-> job_id,
     word_count |-> wc, overlap_start |-> ostart, overlap_end |-> oend,
     confidence_score |-> conf, section_header |-> header]

\* str.title() of a section type
Title(t) ==
    CASE t = "summary" -> "Summary"
      [] t = "responsibilities" -> "Responsibilities"
      [] t = "requirements" -> "Requirements"
      [] t = "benefits" -> "Benefits"
      [] t = "about" -> "About"
      [] t = "location" -> "Location"

\* the while loop of _split_long_section, from the given start and sub_index
RECURSIVE SplitLoop(_, _, _, _, _, _, _)
SplitLoop(words, start, sub_index, section_type, job_id, base_index, p) ==
    IF ~(start < Len(words)) THEN <<>>
    ELSE LET end == Min(start + p.max_chunk_size, Len(words))
             chunk_words == SubSeq(words, start + 1, end)
             chunk_text == Join(chunk_words, <<" ">>)
         IN  <<TextChunk(chunk_text, section_type \o "_part",
                         base_index * 100 + sub_index, job_id, Len(chunk_words),
                         0, 0, _calculate_chunk_quality(chunk_text), Title(section_type))>>
             \o SplitLoop(words, start + p.max_chunk_size - p.overlap_size, sub_index + 1,
                          section_type, job_id, base_index, p)

_split_long_section(s, section_type, job_id, base_index, p) ==
    SplitLoop(Words(s), 0, 0, section_type, job_id, base_index, p)

\* the for loop of _create_section_chunks over enumerate(sections.items()), from item i (0-based)
RECURSIVE SectionLoop(_, _, _, _, _)
SectionLoop(sections, i, acc, job_id, p) ==
    IF i >= Len(sections) THEN acc
    ELSE LET section_type == sections[i + 1].key
             section_content == sections[i + 1].value
             word_count == Len(Words(section_content))
         IN  IF section_content = <<>> \/ word_count < p.min_chunk_size
             THEN SectionLoop(sections, i + 1, acc, job_id, p)
             ELSE IF word_count <= p.max_chunk_size
             THEN SectionLoop(sections, i + 1,
                      Append(acc, TextChunk(section_content, section_type, i, job_id,
                                            word_count, 0, 0,
                                            _calculate_chunk_quality(section_content),
                                            Title(section_type))),
                      job_id, p)
             ELSE SectionLoop(sections, i + 1,
                      acc \o _split_long_section(section_content, section_type, job_id, i, p),
                      job_id, p)

\* _create_section_chunks with the full chunk guarded by > instead of >=
SectionChunksStrictMin(s, job_id, p) ==
    LET cs == SectionLoop(identify_sections(s), 0, <<>>, job_id, p)
        full_text_words == Words(s)
    IN  IF Len(full_text_words) > p.min_chunk_size
        THEN Append(cs, TextChunk(s, "full", Len(cs), job_id, Len(full_text_words),
                                  0, 0, (8 * ONE) \div 10, NoneStr))
        ELSE cs

_create_section_chunks(s, job_id, p) ==
    LET cs == SectionLoop(identify_sections(s), 0, <<>>, job_id, p)
        full_text_words == Words(s)
    IN  IF Len(full_text_words) >= p.min_chunk_size
        THEN Append(cs, TextChunk(s, "full", Len(cs), job_id, Len(full_text_words),
                                  0, 0, (8 * ONE) \div 10, NoneStr))
        ELSE cs

\* OverlapLoop with the window advanced by max_chunk_size, the overlap forgotten
RECURSIVE OverlapLoopNoOverlap(_, _, _, _, _)
OverlapLoopNoOverlap(words, start, chunk_index, job_id, p) ==
    IF ~(start < Len(words)) THEN <<>>
    ELSE LET end == Min(start + p.max_chunk_size, Len(words))
             chunk_words == SubSeq(words, start + 1, end)
             chunk_text == Join(chunk_words, <<" ">>)
         IN  <<TextChunk(chunk_text, "segment", chunk_index, job_id, Len(chunk_words),
                         0, 0, _calculate_chunk_quality(chunk_text), NoneStr)>>
             \o OverlapLoopNoOverlap(words, start + p.max_chunk_size,
                                     chunk_index + 1, job_id, p)

\* the while loop of _create_overlapping_chunks, from the given start and chunk_index
RECURSIVE OverlapLoop(_, _, _, _, _)
OverlapLoop(words, start, chunk_index, job_id, p) ==
    IF ~(start < Len(words)) THEN <<>>
    ELSE LET end == Min(start + p.max_chunk_size, Len(words))
             chunk_words == SubSeq(words, start + 1, end)
             chunk_text == Join(chunk_words, <<" ">>)
             overlap_start == IF start > 0 THEN Max(0, start - p.overlap_size) ELSE 0
             overlap_end == IF end < Len(words)
                            THEN Min(end + p.overlap_size, Len(words)) ELSE end
         IN  <<TextChunk(chunk_text, "segment", chunk_index, job_id, Len(chunk_words),
                         overlap_start, overlap_end,
                         _calculate_chunk_quality(chunk_text), NoneStr)>>
             \o OverlapLoop(words, start + p.max_chunk_size - p.overlap_size,
                            chunk_index + 1, job_id, p)

_create_overlapping_chunks(s, job_id, p) ==
    LET words == Words(s) IN
    IF Len(words) <= p.max_chunk_size
    THEN <<TextChunk(s, "full", 0, job_id, Len(words), 0, 0,
                     _calculate_chunk_quality(s), NoneStr)>>
    ELSE OverlapLoop(words, 0, 0, job_id, p)

\* a variant of create_chunks whose hybrid strategy chunks by sections as soon as one
\* section is found
CreateChunksAnySection(s, job_id, strat, p) ==
    LET cs == CASE strat = "sections" -> _create_section_chunks(s, job_id, p)
                [] strat = "overlapping" -> _create_overlapping_chunks(s, job_id, p)
                [] strat = "hybrid" ->
                       IF Len(identify_sections(s)) >= 1
                       THEN _create_section_chunks(s, job_id, p)
                       ELSE _create_overlapping_chunks(s, job_id, p)
                [] OTHER -> <<>>
    IN  _filter_chunks(cs, p)

create_chunks(s, job_id, strat, p) ==
    LET cs == CASE strat = "sections" -> _create_section_chunks(s, job_id, p)
                [] strat = "overlapping" -> _create_overlapping_chunks(s, job_id, p)
                [] strat = "hybrid" ->
                       IF Len(identify_sections(s)) > 1
                       THEN _create_section_chunks(s, job_id, p)
                       ELSE _create_overlapping_chunks(s, job_id, p)
                [] OTHER -> <<>>
    IN  _filter_chunks(cs, p)

\* chunk_id of embed_and_index
ChunkId(c) == <<c.parent_job_id, "_chunk_", c.chunk_index>>

(***************************************************************************)
(* Inputs of create_chunks                                                 *)
(***************************************************************************)
Letters == <<"a", "b", "c", "d", "e", "f", "g", "h", "i", "j", "k", "l", "m",
             "n", "o", "p", "q", "r", "s", "t", "u", "v", "w", "x", "y", "z">>

\* the content line of k distinct one-letter words that stands at line li
ContentLine(li, k) ==
    Join([j \in 1..k |-> <<Letters[(li - 1) * MaxLineWords + j]>>], <<" ">>)

\* the lines that may stand at line li: headers, a header followed by content,
\* a boilerplate sentence, and content lines
LinesAt(li) ==
    { <<"Responsibilities">>, <<"Requirements", ":">>,
      <<"Responsibilities", ":", " ">> \o ContentLine(li, 1),
      <<"to", " ", "apply", ".">> }
    \cup {ContentLine(li, k) : k \in 1..MaxLineWords}

\* the texts of exactly n lines
RECURSIVE TextsOfLines(_)
TextsOfLines(n) ==
    IF n = 0 THEN {<<>>}
    ELSE IF n = 1 THEN LinesAt(1)
    ELSE {t \o <<"\n">> \o l : <<t, l>> \in TextsOfLines(n - 1) \X LinesAt(n)}

ChunkTexts == UNION {TextsOfLines(n) : n \in 0..MaxLines}

Processors ==
    {[max_chunk_size |-> m, overlap_size |-> o, min_chunk_size |-> n] :
        <<m, o, n>> \in {x \in (2..MaxChunkWords) \X (0..MaxChunkWords) \X (0..MaxMinChunk) :
                            x[2] < x[1]}}

Strategies == {"sections", "overlapping", "hybrid"}

JobId == "job_42"

Idle == "idle"

\* the reranker and the indexer take no part
RerankIdle ==
    model = Idle /\ top_k = Idle /\ reranked_results = Idle /\ final_results = Idle

IndexIdle ==
    /\ batch_size = Idle /\ all_chunks = Idle /\ position = Idle
    /\ vectors_batch = Idle /\ upserts = Idle /\ failed_chunks = Idle

\* the other components take no part
LoopIdle ==
    /\ window_start = Idle /\ next_chunk_index = Idle
    /\ next_sub_index = Idle /\ section_i = Idle

OtherIdle == salary_info = Idle /\ quality_score = Idle /\ LoopIdle /\ users = Idle

InitChunks ==
    /\ RerankIdle /\ IndexIdle /\ found_sections = Idle /\ OtherIdle
    /\ pc = "start"
    /\ text \in ChunkTexts
    /\ strategy \in Strategies
    /\ processor \in Processors
    /\ chunks = <<>>
    /\ raw_text = Idle /\ cleaned = Idle
    /\ jobs = Idle /\ request = Idle /\ filtered_jobs = Idle
    /\ chunk_results = Idle /\ aggregated_jobs = Idle

CreateChunks ==
    /\ UNCHANGED <<rerankVars, indexVars, found_sections, otherVars>>
    /\ pc = "start"
    /\ chunks' = create_chunks(text, JobId, strategy, processor)
    /\ pc' = "done"
    /\ UNCHANGED <<text, strategy, processor, raw_text, cleaned, jobs, request,
                   filtered_jobs, chunk_results, aggregated_jobs>>

NextChunks == CreateChunks

SpecChunks == InitChunks /\ [][NextChunks]_vars

(***************************************************************************)
(* Properties of create_chunks (SpecChunks)                                *)
(***************************************************************************)
RECURSIVE SumWordCount(_)
SumWordCount(cs) == IF cs = <<>> THEN 0 ELSE Head(cs).word_count + SumWordCount(Tail(cs))

NonFull(cs) == SelectSeq(cs, LAMBDA c : c.chunk_type # "full")

Distinct(ws) == \A i, j \in 1..Len(ws) : i # j => ws[i] # ws[j]

SeqRange(ws) == {ws[i] : i \in 1..Len(ws)}

LastWords(ws, k) == SubSeq(ws, Len(ws) - k + 1, Len(ws))
FirstWords(ws, k) == SubSeq(ws, 1, k)

\* the chunk list of the overlapping algorithm for the call under study
Segments == _create_overlapping_chunks(text, JobId, processor)

\* C1: the chunks create_chunks returns for one job have pairwise distinct
\* chunk_index values, hence pairwise distinct vector IDs
C1_DistinctChunkIndex ==
    pc = "done" =>
        \A i, j \in 1..Len(chunks) :
            i # j => /\ chunks[i].chunk_index # chunks[j].chunk_index
                     /\ ChunkId(chunks[i]) # ChunkId(chunks[j])

\* C6 as stated: in the overlapping chunk list of a text longer than max_chunk_size,
\* every adjacent pair that does not end with the final chunk shares exactly
\* overlap_size words
C6_EveryPairSharesO ==
    (pc = "done" /\ strategy = "overlapping"
        /\ Len(Words(text)) > processor.max_chunk_size) =>
        \A i \in 1..(Len(Segments) - 2) :
            LET a == Words(Segments[i].text)
                b == Words(Segments[i + 1].text)
                o == processor.overlap_size
            IN  /\ Len(a) >= o /\ Len(b) >= o
                /\ LastWords(a, o) = FirstWords(b, o)

\* C6 amended: every adjacent pair (i, i+1) shares exactly
\* min(overlap_size, word_count of chunk i+1) words: the last that many words of
\* chunk i are the first that many words of chunk i+1, and with pairwise distinct
\* words the two chunks have no other word in common
C6_PairsShareMinOfOverlapAndLength ==
    (pc = "done" /\ strategy = "overlapping"
        /\ Len(Words(text)) > processor.max_chunk_size) =>
        \A i \in 1..(Len(Segments) - 1) :
            LET a == Words(Segments[i].text)
                b == Words(Segments[i + 1].text)
                k == Min(processor.overlap_size, Segments[i + 1].word_count)
            IN  /\ Len(a) >= k
                /\ LastWords(a, k) = FirstWords(b, k)
                /\ Distinct(Words(text)) =>
                       Cardinality(SeqRange(a) \cap SeqRange(b)) = k

C6_Witness ==
    /\ pc = "done" /\ strategy = "overlapping"
    /\ Len(Words(text)) > processor.max_chunk_size
    /\ Distinct(Words(text))
    /\ processor.overlap_size >= 2
    /\ Len(Segments) >= 4
    /\ Len(chunks) >= 4
    /\ \E i \in 1..(Len(Segments) - 2) :
           Segments[i + 1].word_count < processor.overlap_size

\* C7 as stated: with the sections strategy the word counts of the chunks that are
\* not full sum to at most the number of words of the text
C7_SumWithinText ==
    (pc = "done" /\ strategy = "sections") =>
        SumWordCount(NonFull(chunks)) <= Len(Words(text))

NoOversizedSection ==
    \A i \in 1..Len(identify_sections(text)) :
        Len(Words(identify_sections(text)[i].value)) <= processor.max_chunk_size

\* C7 amended: with the sections strategy the word counts of the chunks that are not
\* full sum to at most the number of words of the text when overlap_size is 0 or no
\* section has more than max_chunk_size words
C7_SumWithinTextWithoutOverlap ==
    (pc = "done" /\ strategy = "sections"
        /\ (processor.overlap_size = 0 \/ NoOversizedSection)) =>
        SumWordCount(NonFull(chunks)) <= Len(Words(text))

C7_Witness ==
    /\ pc = "done" /\ strategy = "sections"
    /\ processor.overlap_size = 0
    /\ ~NoOversizedSection
    /\ Len(NonFull(chunks)) >= 2
    /\ \E i \in 1..Len(chunks) : chunks[i].chunk_type = "summary_part"
    /\ SumWordCount(NonFull(chunks)) = Len(Words(text))

EndsWithFullChunk ==
    /\ chunks # <<>>
    /\ chunks[Len(chunks)].chunk_type = "full"
    /\ chunks[Len(chunks)].text = text
    /\ 10 * chunks[Len(chunks)].confidence_score = 8 * ONE

RECURSIVE HtmlPatternSubFrom(_, _)
HtmlPatternSubFrom(s, pos) ==
    LET starts == {i \in (pos + 1)..Len(s) :
                      /\ s[i] = "<"
                      /\ i + 1 <= Len(s) /\ s[i + 1] # ">"
                      /\ \E j \in (i + 2)..Len(s) : s[j] = ">"}
    IN  IF starts = {} THEN SubSeq(s, pos + 1, Len(s))
        ELSE LET i == CHOOSE x \in starts : \A y \in starts : x <= y
                 j == CHOOSE x \in (i + 2)..Len(s) :
                          s[x] = ">" /\ \A y \in (i + 2)..(x - 1) : s[y] # ">"
             IN  SubSeq(s, pos + 1, i - 1) \o <<" ">> \o HtmlPatternSubFrom(s, j)

\* the named character references of html.entities.html5 that the atoms of the model spell
html5(name) ==
    CASE name = <<"lt">> -> <<"<">>
      [] name = <<"lt", ";">> -> <<"<">>
      [] name = <<"gt">> -> <<">">>
      [] name = <<"gt", ";">> -> <<">">>
      [] name = <<"amp">> -> <<"&">>
      [] name = <<"amp", ";">> -> <<"&">>
      [] OTHER -> <<>>

\* characters that end the name of a character reference: [^\t\n\f <&#;]
EndsCharrefName(c) == c \in {"\t", "\n", " ", "<", "&", "#", ";"}

\* html._replace_charref for a named reference s (the text after the &)
ReplaceCharref(s) ==
    IF html5(s) # <<>> THEN html5(s)
    ELSE LET xs == {x \in 1..(Len(s) - 1) :
                       StrLen(SubSeq(s, 1, x)) >= 2 /\ html5(SubSeq(s, 1, x)) # <<>>}
         IN  IF xs = {} THEN <<"&">> \o s
             ELSE LET x == CHOOSE a \in xs : \A b \in xs : b <= a
                  IN  html5(SubSeq(s, 1, x)) \o SubSeq(s, x + 1, Len(s))

\* html.unescape(s), scanning from position pos
RECURSIVE UnescapeFrom(_, _)
UnescapeFrom(s, pos) ==
    LET starts == {i \in (pos + 1)..Len(s) :
                      s[i] = "&" /\ i + 1 <= Len(s) /\ ~EndsCharrefName(s[i + 1])}
    IN  IF starts = {} THEN SubSeq(s, pos + 1, Len(s))
        ELSE LET i == CHOOSE x \in starts : \A y \in starts : x <= y
                 ends == {j \in (i + 1)..Len(s) :
                             /\ \A y \in (i + 1)..j : ~EndsCharrefName(s[y])
                             /\ (j = Len(s) \/ EndsCharrefName(s[j + 1]))}
                 j == CHOOSE x \in ends : TRUE
                 e == IF j < Len(s) /\ s[j + 1] = ";" THEN j + 1 ELSE j
             IN  SubSeq(s, pos + 1, i - 1) \o ReplaceCharref(SubSeq(s, i + 1, e))
                     \o UnescapeFrom(s, e)

\* [a-zA-Z0-9#]
IsEntityChar(c) == c = "#" \/ (IsWordChar(c) /\ c # "_")

\* self.html_entities.sub(' ', s) with html_entities = &[a-zA-Z0-9#]+; , from position pos
RECURSIVE HtmlEntitiesSubFrom(_, _)
HtmlEntitiesSubFrom(s, pos) ==
    LET starts == {i \in (pos + 1)..Len(s) :
                      /\ s[i] = "&"
                      /\ \E j \in (i + 2)..Len(s) :
                             s[j] = ";" /\ \A y \in (i + 1)..(j - 1) : IsEntityChar(s[y])}
    IN  IF starts = {} THEN SubSeq(s, pos + 1, Len(s))
        ELSE LET i == CHOOSE x \in starts : \A y \in starts : x <= y
                 j == CHOOSE x \in (i + 2)..Len(s) :
                          s[x] = ";" /\ \A y \in (i + 1)..(x - 1) : IsEntityChar(s[y])
             IN  SubSeq(s, pos + 1, i - 1) \o <<" ">> \o HtmlEntitiesSubFrom(s, j)

\* length of the maximal run of characters of the class cls that starts at s[i]
RECURSIVE RunLen(_, _, _)
RunLen(s, i, cls) ==
    IF i <= Len(s) /\ s[i] \in cls THEN 1 + RunLen(s, i + 1, cls) ELSE 0

\* re.sub(r'[cls]{least,}', repl, s): every maximal run of at least `least` characters
\* of the class is replaced by repl
RECURSIVE RunsSub(_, _, _, _)
RunsSub(s, cls, least, repl) ==
    IF s = <<>> THEN <<>>
    ELSE LET n == RunLen(s, 1, cls) IN
         IF n >= least THEN repl \o RunsSub(SubSeq(s, n + 1, Len(s)), cls, least, repl)
         ELSE IF n >= 1
              THEN SubSeq(s, 1, n) \o RunsSub(SubSeq(s, n + 1, Len(s)), cls, least, repl)
              ELSE <<Head(s)>> \o RunsSub(Tail(s), cls, least, repl)

Whitespace == {" ", "\n", "\t"}

\* re.sub(r'\s*\n\s*\n\s*', '\n\n', s): a whitespace run that holds two newlines
RECURSIVE BlankLinesSub(_)
BlankLinesSub(s) ==
    IF s = <<>> THEN <<>>
    ELSE LET n == RunLen(s, 1, Whitespace) IN
         IF n >= 2 /\ Cardinality({i \in 1..n : s[i] = "\n"}) >= 2
         THEN <<"\n", "\n">> \o BlankLinesSub(SubSeq(s, n + 1, Len(s)))
         ELSE IF n >= 1 THEN SubSeq(s, 1, n) \o BlankLinesSub(SubSeq(s, n + 1, Len(s)))
         ELSE <<Head(s)>> \o BlankLinesSub(Tail(s))

\* clean_text with step 3 collapsing runs of spaces and tabs only
CleanTextKeepingLineBreaks(s) ==
    IF s = <<>> THEN <<>>
    ELSE LET t1 == HtmlPatternSubFrom(s, 0)
             t2 == UnescapeFrom(t1, 0)
             t3 == HtmlEntitiesSubFrom(t2, 0)
             t4 == RemoveBoilerplate(t3, 1)
             t5 == RunsSub(t4, {"\n"}, 1, <<"\n">>)
             t6 == RunsSub(t5, {" ", "\t"}, 1, <<" ">>)
             t7 == RunsSub(t6, {"!"}, 2, <<"!">>)
             t8 == RunsSub(t7, {"?"}, 2, <<"?">>)
             t9 == RunsSub(t8, {"."}, 3, <<".", ".", ".">>)
             t10 == BlankLinesSub(t9)
         IN  Strip(t10)

clean_text(s) ==
    IF s = <<>> THEN <<>>
    ELSE LET t1 == HtmlPatternSubFrom(s, 0)
             t2 == UnescapeFrom(t1, 0)
             t3 == HtmlEntitiesSubFrom(t2, 0)
             t4 == RemoveBoilerplate(t3, 1)
             t5 == RunsSub(t4, {"\n"}, 1, <<"\n">>)
             t6 == RunsSub(t5, Whitespace, 1, <<" ">>)
             t7 == RunsSub(t6, {"!"}, 2, <<"!">>)
             t8 == RunsSub(t7, {"?"}, 2, <<"?">>)
             t9 == RunsSub(t8, {"."}, 3, <<".", ".", ".">>)
             t10 == BlankLinesSub(t9)
         IN  Strip(t10)

(***************************************************************************)
(* Inputs of clean_text: a raw text is a concatenation of pieces           *)
(***************************************************************************)
RawPieces ==
    { <<"<">>, <<">">>, <<"<", "x", ">">>,
      <<"&", "lt", ";">>, <<"&", "gt", ";">>, <<"&", "lt">>, <<"&", "amp", ";">>,
      <<"x">>, <<" ">>, <<"\n">>, <<".">>, <<"to", " ", "apply">> }

RECURSIVE RawTextsOf(_)
RawTextsOf(n) ==
    IF n = 0 THEN {<<>>}
    ELSE {t \o q : <<t, q>> \in RawTextsOf(n - 1) \X RawPieces}

RawTexts == UNION {RawTextsOf(n) : n \in 0..MaxPieces}

InitClean ==
    /\ RerankIdle /\ IndexIdle /\ found_sections = Idle /\ OtherIdle
    /\ pc = "start"
    /\ raw_text \in RawTexts
    /\ cleaned = <<>>
    /\ text = Idle /\ strategy = Idle /\ processor = Idle /\ chunks = Idle
    /\ jobs = Idle /\ request = Idle /\ filtered_jobs = Idle
    /\ chunk_results = Idle /\ aggregated_jobs = Idle

CleanText ==
    /\ UNCHANGED <<rerankVars, indexVars, found_sections, otherVars>>
    /\ pc = "start"
    /\ cleaned' = clean_text(raw_text)
    /\ pc' = "done"
    /\ UNCHANGED <<raw_text, text, strategy, processor, chunks, jobs, request,
                   filtered_jobs, chunk_results, aggregated_jobs>>

NextClean == CleanText

SpecClean == InitClean /\ [][NextClean]_vars

\* C2: the string returned by clean_text holds no '<' that is followed later by a '>'
C2_NoTagDelimiterPair ==
    pc = "done" =>
        ~\E i, j \in 1..Len(cleaned) : i < j /\ cleaned[i] = "<" /\ cleaned[j] = ">"

(***************************************************************************)
(* _filter_jobs                                                            *)
(***************************************************************************)
NONE == -1             \* Python None in an integer-valued field (the fields are >= 0)

\* truth value of an Optional[int]
Truthy(x) == x # NONE /\ x # 0

\* a or b, on Optional[int]
PyOr(a, b) == IF Truthy(a) THEN a ELSE b

\* list.sort(key=lambda x: x['score'], reverse=True): stable, descending by score
RECURSIVE SortByScoreDesc(_)
SortByScoreDesc(xs) ==
    IF xs = <<>> THEN <<>>
    ELSE LET sorted == SortByScoreDesc(SubSeq(xs, 1, Len(xs) - 1))
             x == xs[Len(xs)]
             k == Cardinality({i \in 1..Len(sorted) : sorted[i].score >= x.score})
         IN  SubSeq(sorted, 1, k) \o <<x>> \o SubSeq(sorted, k + 1, Len(sorted))

\* x in the list xs
InList(x, xs) == \E i \in 1..Len(xs) : xs[i] = x

LowerList(xs) == [i \in 1..Len(xs) |-> LowerStr(xs[i])]

\* a variant of the exclude rule that compares the keyword as written
ExcludedCaseSensitive(job, req) ==
    \E i \in 1..Len(req.exclude_keywords) :
        IsSubstr(req.exclude_keywords[i], LowerStr(job.metadata.text))

\* the exclude_keywords rule: some exclude keyword occurs in the lowered job text
Excluded(job, req) ==
    \E i \in 1..Len(req.exclude_keywords) :
        IsSubstr(LowerStr(req.exclude_keywords[i]), LowerStr(job.metadata.text))

\* the skill is found for the job: in the lowered text or among the lowered extracted skills
SkillFound(skill, job) ==
    \/ IsSubstr(LowerStr(skill), LowerStr(job.metadata.text))
    \/ InList(LowerStr(skill), LowerList(job.metadata.skills))

\* number of list entries for which the predicate holds
CountWhere(xs, Pred(_)) == Cardinality({i \in 1..Len(xs) : Pred(xs[i])})

\* each rule as [keep |-> the job survives the rule, boost |-> what it adds]
RuleExperienceLevel(job, req) ==
    LET lvl == job.metadata.experience_level IN
    IF req.experience_level = NoneStr THEN [keep |-> TRUE, boost |-> 0]
    ELSE IF lvl # NoneStr /\ Lower(lvl) # Lower(req.experience_level)
         THEN [keep |-> FALSE, boost |-> 0]
    ELSE IF lvl # NoneStr THEN [keep |-> TRUE, boost |-> ONE \div 5]
    ELSE [keep |-> TRUE, boost |-> 0]

RuleExperienceYears(job, req) ==
    LET years == job.metadata.experience_years IN
    IF ~(Truthy(req.min_experience_years) \/ Truthy(req.max_experience_years))
    THEN [keep |-> TRUE, boost |-> 0]
    ELSE IF ~Truthy(years) THEN [keep |-> TRUE, boost |-> 0]
    ELSE IF Truthy(req.min_experience_years) /\ years < req.min_experience_years
         THEN [keep |-> FALSE, boost |-> 0]
    ELSE IF Truthy(req.max_experience_years) /\ years > req.max_experience_years
         THEN [keep |-> FALSE, boost |-> 0]
    ELSE [keep |-> TRUE, boost |-> (3 * ONE) \div 20]

RuleSalary(job, req) ==
    LET job_min == PyOr(job.metadata.salary_min, job.metadata.salary_amount)
        job_max == PyOr(job.metadata.salary_max, job.metadata.salary_amount)
    IN  IF ~(Truthy(req.min_salary) \/ Truthy(req.max_salary))
        THEN [keep |-> TRUE, boost |-> 0]
        ELSE IF ~(Truthy(job_min) \/ Truthy(job_max)) THEN [keep |-> TRUE, boost |-> 0]
        ELSE IF Truthy(req.min_salary) /\ Truthy(job_max) /\ job_max < req.min_salary
             THEN [keep |-> FALSE, boost |-> 0]
        ELSE IF Truthy(req.max_salary) /\ Truthy(job_min) /\ job_min > req.max_salary
             THEN [keep |-> FALSE, boost |-> 0]
        ELSE [keep |-> TRUE, boost |-> ONE \div 10]

RuleRemoteOnly(job, req) ==
    IF ~req.remote_only THEN [keep |-> TRUE, boost |-> 0]
    ELSE IF ~job.metadata.remote_work THEN [keep |-> FALSE, boost |-> 0]
    ELSE [keep |-> TRUE, boost |-> ONE \div 5]

RuleHasSalaryInfo(job, req) ==
    IF ~req.has_salary_info THEN [keep |-> TRUE, boost |-> 0]
    ELSE IF ~job.metadata.has_salary_info THEN [keep |-> FALSE, boost |-> 0]
    ELSE [keep |-> TRUE, boost |-> ONE \div 20]

LocationMatches(location, job) ==
    \/ IsSubstr(LowerStr(location), LowerStr(job.metadata.text))
    \/ \E i \in 1..Len(job.metadata.extracted_locations) :
           IsSubstr(LowerStr(location), LowerStr(job.metadata.extracted_locations[i]))

\* a variant of the locations rule that never drops a job
LocationsBoostOnly(job, req) ==
    IF req.locations = <<>> THEN [keep |-> TRUE, boost |-> 0]
    ELSE IF \E i \in 1..Len(req.locations) : LocationMatches(req.locations[i], job)
         THEN [keep |-> TRUE, boost |-> (3 * ONE) \div 20]
    ELSE [keep |-> TRUE, boost |-> 0]

RuleLocations(job, req) ==
    IF req.locations = <<>> THEN [keep |-> TRUE, boost |-> 0]
    ELSE IF \E i \in 1..Len(req.locations) : LocationMatches(req.locations[i], job)
         THEN [keep |-> TRUE, boost |-> (3 * ONE) \div 20]
    ELSE [keep |-> FALSE, boost |-> 0]

\* a variant of the required_skills rule that keeps a job with at least one skill found
RequiredSkillsAnyFound(job, req) ==
    IF req.required_skills = <<>> THEN [keep |-> TRUE, boost |-> 0]
    ELSE LET skills_found == CountWhere(req.required_skills, LAMBDA k : SkillFound(k, job))
         IN  IF skills_found = 0
             THEN [keep |-> FALSE, boost |-> 0]
             ELSE [keep |-> TRUE, boost |-> ONE \div 4]

RuleRequiredSkills(job, req) ==
    IF req.required_skills = <<>> THEN [keep |-> TRUE, boost |-> 0]
    ELSE LET skills_found == CountWhere(req.required_skills, LAMBDA k : SkillFound(k, job))
         IN  IF skills_found < Len(req.required_skills)
             THEN [keep |-> FALSE, boost |-> 0]
             ELSE [keep |-> TRUE, boost |-> ONE \div 4]

RulePreferredSkills(job, req) ==
    [keep |-> TRUE,
     boost |-> CountWhere(req.preferred_skills, LAMBDA k : SkillFound(k, job)) * (ONE \div 10)]

RuleEducation(job, req) ==
    IF req.required_education = <<>> THEN [keep |-> TRUE, boost |-> 0]
    ELSE LET by_list == \E r \in 1..Len(req.required_education) :
                            \E e \in 1..Len(job.metadata.education) :
                                IsSubstr(LowerStr(req.required_education[r]),
                                         LowerStr(job.metadata.education[e]))
             by_text == \E r \in 1..Len(req.required_education) :
                            IsSubstr(LowerStr(req.required_education[r]),
                                     LowerStr(job.metadata.text))
         IN  IF by_list \/ by_text THEN [keep |-> TRUE, boost |-> ONE \div 10]
             ELSE [keep |-> FALSE, boost |-> 0]

BenefitFound(benefit, job) ==
    \/ IsSubstr(LowerStr(benefit), LowerStr(job.metadata.text))
    \/ \E i \in 1..Len(job.metadata.benefits) :
           IsSubstr(LowerStr(benefit), LowerStr(job.metadata.benefits[i]))

RuleBenefits(job, req) ==
    IF req.required_benefits = <<>> THEN [keep |-> TRUE, boost |-> 0]
    ELSE IF CountWhere(req.required_benefits, LAMBDA b : BenefitFound(b, job))
                < Len(req.required_benefits)
         THEN [keep |-> FALSE, boost |-> 0]
    ELSE [keep |-> TRUE, boost |-> ONE \div 10]

\* the rules after the exclude rule, in the order of the loop body
RulesOf(job, req) ==
    << RuleExperienceLevel(job, req), RuleExperienceYears(job, req), RuleSalary(job, req),
       RuleRemoteOnly(job, req), RuleHasSalaryInfo(job, req), RuleLocations(job, req),
       RuleRequiredSkills(job, req), RulePreferredSkills(job, req),
       RuleEducation(job, req), RuleBenefits(job, req) >>

RECURSIVE SumBoosts(_)
SumBoosts(rs) == IF rs = <<>> THEN 0 ELSE Head(rs).boost + SumBoosts(Tail(rs))

\* the job reaches filtered_jobs.append
Included(job, req) ==
    /\ ~Excluded(job, req)
    /\ \A i \in 1..Len(RulesOf(job, req)) : RulesOf(job, req)[i].keep

relevance_boost(job, req) == SumBoosts(RulesOf(job, req))

\* a variant of the appended entry whose score is not capped at 1.0
FilteredEntryUncapped(job, req) ==
    [id |-> job.id, score |-> job.score + relevance_boost(job, req),
     text |-> job.metadata.text, metadata |-> job.metadata]

FilteredEntry(job, req) ==
    [id |-> job.id, score |-> Min(ONE, job.score + relevance_boost(job, req)),
     text |-> job.metadata.text, metadata |-> job.metadata]

CandidateCap == 50

_filter_jobs(js, req) ==
    LET kept == SelectSeq(js, LAMBDA j : Included(j, req))
        entries == [i \in 1..Len(kept) |-> FilteredEntry(kept[i], req)]
        sorted == SortByScoreDesc(entries)
    IN  SubSeq(sorted, 1, Min(CandidateCap, Len(sorted)))

(***************************************************************************)
(* Inputs of _filter_jobs                                                  *)
(***************************************************************************)
FilterTexts == { <<>>, <<"a">>, <<"A", "b">> }

JobSkills == { <<>>, << <<"A">> >> }

\* a job without extracted metadata, and one with every field extracted
BareProfile ==
    [score |-> ONE \div 2, experience_level |-> NoneStr, experience_years |-> NONE,
     salary_min |-> NONE, salary_max |-> NONE, salary_amount |-> NONE,
     remote_work |-> FALSE, has_salary_info |-> FALSE, extracted_locations |-> <<>>,
     education |-> <<>>, benefits |-> <<>>]

RichProfile ==
    [score |-> (9 * ONE) \div 10, experience_level |-> "Senior", experience_years |-> 5,
     salary_min |-> 100, salary_max |-> 150, salary_amount |-> NONE,
     remote_work |-> TRUE, has_salary_info |-> TRUE, extracted_locations |-> << <<"b">> >>,
     education |-> << <<"a">> >>, benefits |-> << <<"b">> >>]

JobProfiles == {BareProfile, RichProfile}

JobOf(id, t, skills, pr) ==
    [id |-> id, score |-> pr.score,
     metadata |-> [text |-> t, skills |-> skills,
                   experience_level |-> pr.experience_level,
                   experience_years |-> pr.experience_years,
                   salary_min |-> pr.salary_min, salary_max |-> pr.salary_max,
                   salary_amount |-> pr.salary_amount, remote_work |-> pr.remote_work,
                   has_salary_info |-> pr.has_salary_info,
                   extracted_locations |-> pr.extracted_locations,
                   education |-> pr.education, benefits |-> pr.benefits]]

JobName(i) == "job_" \o ToString(i)

\* the jobs that may stand at position i of the list
JobsAt(i) ==
    {JobOf(JobName(i), t, sk, pr) :
        <<t, sk, pr>> \in FilterTexts \X JobSkills \X JobProfiles}

RECURSIVE JobListsOf(_)
JobListsOf(n) ==
    IF n = 0 THEN {<<>>}
    ELSE {Append(js, j) : <<js, j>> \in JobListsOf(n - 1) \X JobsAt(n)}

JobLists == UNION {JobListsOf(n) : n \in 0..MaxJobs}

KeywordLists == { <<>>, << <<"a">> >>, << <<"B">> >>, << <<"a">>, <<"A", "B">> >> }

EmptyRequest ==
    [locations |-> <<>>, required_skills |-> <<>>, preferred_skills |-> <<>>,
     exclude_keywords |-> <<>>, experience_level |-> NoneStr,
     min_experience_years |-> NONE, max_experience_years |-> NONE,
     min_salary |-> NONE, max_salary |-> NONE, remote_only |-> FALSE,
     has_salary_info |-> FALSE, required_education |-> <<>>, required_benefits |-> <<>>]

\* the criteria besides exclude_keywords and required_skills: none, or one of them set
OtherCriteria ==
    { EmptyRequest,
      [EmptyRequest EXCEPT !.experience_level = "senior"],
      [EmptyRequest EXCEPT !.min_experience_years = 3, !.max_experience_years = 10],
      [EmptyRequest EXCEPT !.min_salary = 120],
      [EmptyRequest EXCEPT !.remote_only = TRUE],
      [EmptyRequest EXCEPT !.has_salary_info = TRUE],
      [EmptyRequest EXCEPT !.locations = << <<"b">> >>],
      [EmptyRequest EXCEPT !.preferred_skills = << <<"a">>, <<"b">> >>],
      [EmptyRequest EXCEPT !.required_education = << <<"a">> >>],
      [EmptyRequest EXCEPT !.required_benefits = << <<"b">> >>] }

Requests ==
    {[r EXCEPT !.exclude_keywords = ex, !.required_skills = rs] :
        <<r, ex, rs>> \in OtherCriteria \X KeywordLists \X KeywordLists}

InitFilter ==
    /\ RerankIdle /\ IndexIdle /\ found_sections = Idle /\ OtherIdle
    /\ pc = "start"
    /\ jobs \in JobLists
    /\ request \in Requests
    /\ filtered_jobs = <<>>
    /\ text = Idle /\ strategy = Idle /\ processor = Idle /\ chunks = Idle
    /\ raw_text = Idle /\ cleaned = Idle
    /\ chunk_results = Idle /\ aggregated_jobs = Idle

FilterJobs ==
    /\ UNCHANGED <<rerankVars, indexVars, found_sections, otherVars>>
    /\ pc = "start"
    /\ filtered_jobs' = _filter_jobs(jobs, request)
    /\ pc' = "done"
    /\ UNCHANGED <<jobs, request, text, strategy, processor, chunks, raw_text, cleaned,
                   chunk_results, aggregated_jobs>>

NextFilter == FilterJobs

SpecFilter == InitFilter /\ [][NextFilter]_vars

InOutput(id) == \E i \in 1..Len(filtered_jobs) : filtered_jobs[i].id = id

\* the skill is present for the job: a case-insensitive substring of its text, or equal
\* (case-insensitively) to one of its extracted skills
SkillPresent(skill, job) ==
    \/ \E i \in 0..(Len(job.metadata.text) - Len(skill)) :
           \A k \in 1..Len(skill) : Lower(job.metadata.text[i + k]) = Lower(skill[k])
    \/ \E e \in 1..Len(job.metadata.skills) :
           /\ Len(job.metadata.skills[e]) = Len(skill)
           /\ \A k \in 1..Len(skill) : Lower(job.metadata.skills[e][k]) = Lower(skill[k])

\* C3: with a non-empty required_skills list, no job is in the output of _filter_jobs
\* unless every required skill is present for it
C3_RequiredSkillsAllPresent ==
    (pc = "done" /\ request.required_skills # <<>>) =>
        \A j \in 1..Len(jobs) :
            InOutput(jobs[j].id) =>
                \A r \in 1..Len(request.required_skills) :
                    SkillPresent(request.required_skills[r], jobs[j])

C3_Witness ==
    /\ pc = "done"
    /\ Len(request.required_skills) = 2
    /\ Len(jobs) = 2
    /\ InOutput(jobs[1].id)
    /\ ~InOutput(jobs[2].id)
    /\ Included(jobs[2], [request EXCEPT !.required_skills = <<>>])
    /\ \E r \in 1..2 : SkillPresent(request.required_skills[r], jobs[2])
    /\ \E r \in 1..2 : ~SkillPresent(request.required_skills[r], jobs[2])

\* the text holds some exclude keyword as a case-insensitive substring
HoldsExcludedKeyword(job) ==
    \E x \in 1..Len(request.exclude_keywords) :
        LET kw == request.exclude_keywords[x] IN
        \E i \in 0..(Len(job.metadata.text) - Len(kw)) :
            \A k \in 1..Len(kw) : Lower(job.metadata.text[i + k]) = Lower(kw[k])

\* C4: a job whose text holds an exclude keyword is never in the output of _filter_jobs,
\* and the exclude rule only removes: the output is what the other rules return for the
\* jobs that hold no exclude keyword
C4_ExcludedNeverAppears ==
    pc = "done" =>
        /\ \A j \in 1..Len(jobs) : HoldsExcludedKeyword(jobs[j]) => ~InOutput(jobs[j].id)
        /\ filtered_jobs =
               _filter_jobs(SelectSeq(jobs, LAMBDA j : ~HoldsExcludedKeyword(j)),
                            [request EXCEPT !.exclude_keywords = <<>>])

C4_Witness ==
    /\ pc = "done"
    /\ Len(jobs) = 2
    /\ request.exclude_keywords # <<>>
    /\ request.required_skills # <<>>
    /\ request.remote_only
    /\ HoldsExcludedKeyword(jobs[1])
    /\ Included(jobs[1], [request EXCEPT !.exclude_keywords = <<>>])
    /\ ~InOutput(jobs[1].id)
    /\ InOutput(jobs[2].id)

(***************************************************************************)
(* _aggregate_chunks_to_jobs and _combine_chunk_texts                      *)
(*                                                                         *)
(* A call returns [raised |-> FALSE, value |-> v] or ends with an          *)
(* exception, [raised |-> TRUE, value |-> the exception's name].           *)
(***************************************************************************)
Returned(v) == [raised |-> FALSE, value |-> v]
Raised(e) == [raised |-> TRUE, value |-> e]

section_priority(t) ==
    CASE t = "title" -> 0
      [] t = "summary" -> 1
      [] t = "responsibilities" -> 2
      [] t = "requirements" -> 3
      [] t = "benefits" -> 4
      [] t = "about" -> 5
      [] t = "full" -> 6
      [] t = "segment" -> 7
      [] OTHER -> 10

\* the sort key (priority, chunk_index) of c1 is at most that of c2
KeyLeq(c1, c2) ==
    LET p1 == section_priority(c1.metadata.chunk_type)
        p2 == section_priority(c2.metadata.chunk_type)
    IN  p1 < p2 \/ (p1 = p2 /\ c1.metadata.chunk_index <= c2.metadata.chunk_index)

\* sorted(chunks, key=...): stable, ascending
RECURSIVE SortByKey(_)
SortByKey(cs) ==
    IF cs = <<>> THEN <<>>
    ELSE LET sorted == SortByKey(SubSeq(cs, 1, Len(cs) - 1))
             c == cs[Len(cs)]
             k == Cardinality({i \in 1..Len(sorted) : KeyLeq(sorted[i], c)})
         IN  SubSeq(sorted, 1, k) \o <<c>> \o SubSeq(sorted, k + 1, Len(sorted))

\* the loop over sorted_chunks: combined_parts, given the texts seen so far
RECURSIVE CombinedParts(_, _)
CombinedParts(cs, seen_texts) ==
    IF cs = <<>> THEN <<>>
    ELSE LET chunk_text == Strip(Head(cs).metadata.text)
             section_header == Head(cs).metadata.section_header
         IN  IF chunk_text = <<>> \/ chunk_text \in seen_texts
             THEN CombinedParts(Tail(cs), seen_texts)
             ELSE (IF section_header # NoneStr /\ ~IsSubstr(<<section_header>>, chunk_text)
                   THEN << <<"\n", section_header, ":">> >> ELSE <<>>)
                  \o <<chunk_text>>
                  \o CombinedParts(Tail(cs), seen_texts \cup {chunk_text})

\* line 700 uses re, which core/search.py does not import: NameError
_combine_chunk_texts(cs) ==
    IF cs = <<>> THEN Returned(<<>>)
    ELSE LET combined_text == Strip(Join(CombinedParts(SortByKey(cs), {}), <<"\n", "\n">>))
         IN  Raised("NameError")

\* the parent job ids in the order of their first hit (the keys of job_groups)
RECURSIVE GroupIds(_)
GroupIds(hits) ==
    IF hits = <<>> THEN <<>>
    ELSE LET before == GroupIds(SubSeq(hits, 1, Len(hits) - 1))
             id == hits[Len(hits)].metadata.parent_job_id
         IN  IF InList(id, before) THEN before ELSE Append(before, id)

GroupChunks(hits, job_id) == SelectSeq(hits, LAMBDA c : c.metadata.parent_job_id = job_id)

NoChunk == [id |-> NoneStr]      \* best_chunk = None

\* the loop that tracks the best chunk: [max_score, best_chunk] after the chunks cs
RECURSIVE TrackBest(_)
TrackBest(cs) ==
    IF cs = <<>> THEN [max_score |-> 0, best_chunk |-> NoChunk]
    ELSE LET before == TrackBest(SubSeq(cs, 1, Len(cs) - 1))
             c == cs[Len(cs)]
         IN  IF c.score > before.max_score
             THEN [max_score |-> c.score, best_chunk |-> c]
             ELSE before

RECURSIVE SumScores(_)
SumScores(cs) == IF cs = <<>> THEN 0 ELSE Head(cs).score + SumScores(Tail(cs))

MaxScore(cs) == CHOOSE m \in {cs[i].score : i \in 1..Len(cs)} :
                    \A i \in 1..Len(cs) : cs[i].score <= m

MinScore(cs) == CHOOSE m \in {cs[i].score : i \in 1..Len(cs)} :
                    \A i \in 1..Len(cs) : cs[i].score >= m

\* max_score * 0.7 + avg_score * 0.3
WeightedScore(cs) ==
    IF cs = <<>> THEN 0
    ELSE (7 * MaxScore(cs)) \div 10 + (3 * (SumScores(cs) \div Len(cs))) \div 10

\* best_metadata.get(...) with the defaults of lines 612-636
BestMetadata(best) ==
    IF best = NoChunk
    THEN [title |-> <<>>, chunk_type |-> "unknown", skills |-> <<>>,
          experience_level |-> NoneStr, experience_years |-> NONE,
          salary_min |-> NONE, salary_max |-> NONE, salary_amount |-> NONE,
          remote_work |-> FALSE, extracted_locations |-> <<>>,
          education |-> <<>>, benefits |-> <<>>]
    ELSE [title |-> best.metadata.title, chunk_type |-> best.metadata.chunk_type,
          skills |-> best.metadata.skills,
          experience_level |-> best.metadata.experience_level,
          experience_years |-> best.metadata.experience_years,
          salary_min |-> best.metadata.salary_min, salary_max |-> best.metadata.salary_max,
          salary_amount |-> best.metadata.salary_amount,
          remote_work |-> best.metadata.remote_work,
          extracted_locations |-> best.metadata.extracted_locations,
          education |-> best.metadata.education, benefits |-> best.metadata.benefits]

\* the aggregated job of one group, given its combined text
AggregatedJob(job_id, cs, combined_text) ==
    LET bm == BestMetadata(TrackBest(cs).best_chunk) IN
    [id |-> job_id, score |-> WeightedScore(cs),
     metadata |-> [text |-> combined_text, title |-> bm.title, skills |-> bm.skills,
                   experience_level |-> bm.experience_level,
                   experience_years |-> bm.experience_years,
                   salary_min |-> bm.salary_min, salary_max |-> bm.salary_max,
                   salary_amount |-> bm.salary_amount, remote_work |-> bm.remote_work,
                   extracted_locations |-> bm.extracted_locations,
                   education |-> bm.education, benefits |-> bm.benefits,
                   chunk_count |-> Len(cs),
                   chunk_types |-> {cs[i].metadata.chunk_type : i \in 1..Len(cs)},
                   best_chunk_type |-> bm.chunk_type,
                   best_chunk_score |-> MaxScore(cs),
                   avg_chunk_score |-> SumScores(cs) \div Len(cs),
                   chunk_scores |-> [i \in 1..Len(cs) |-> cs[i].score]]]

_aggregate_chunks_to_jobs(hits) ==
    IF hits = <<>> THEN Returned(<<>>)
    ELSE LET ids == GroupIds(hits)
             texts == [g \in 1..Len(ids) |-> _combine_chunk_texts(GroupChunks(hits, ids[g]))]
         IN  IF \E g \in 1..Len(ids) : texts[g].raised
             THEN LET g == CHOOSE x \in 1..Len(ids) :
                               texts[x].raised /\ \A y \in 1..(x - 1) : ~texts[y].raised
                  IN  Raised(texts[g].value)
             ELSE Returned(SortByScoreDesc(
                      [g \in 1..Len(ids) |->
                          AggregatedJob(ids[g], GroupChunks(hits, ids[g]), texts[g].value)]))

(***************************************************************************)
(* The hits given to _aggregate_chunks_to_jobs: up to MaxHits chunk hits   *)
(* of up to MaxJobs jobs, each as embed_and_index writes a chunk (id,      *)
(* parent_job_id, chunk_type, chunk_index, text, section_header and the    *)
(* job's metadata), with a similarity score that is negative, zero or      *)
(* positive.                                                               *)
(***************************************************************************)
JobIds == [i \in 1..MaxJobs |-> JobName(i)]

HitScores == {0 - (ONE \div 2), 0, (6 * ONE) \div 10, (9 * ONE) \div 10}

HitTypes == {"requirements", "full"}

HitOf(parent, type, score) ==
    LET idx == IF type = "full" THEN 1 ELSE 0
        pr == IF type = "full" THEN BareProfile ELSE RichProfile
    IN  [id |-> <<parent, "_chunk_", idx>>, score |-> score,
         metadata |-> [parent_job_id |-> parent, chunk_type |-> type, chunk_index |-> idx,
                       text |-> IF type = "full" THEN <<"a", " ", "b">> ELSE <<"a">>,
                       section_header |-> IF type = "full" THEN NoneStr ELSE "Requirements",
                       title |-> IF type = "full" THEN <<"b">> ELSE <<"a">>,
                       skills |-> IF type = "full" THEN <<>> ELSE << <<"a">> >>,
                       experience_level |-> pr.experience_level,
                       experience_years |-> pr.experience_years,
                       salary_min |-> pr.salary_min, salary_max |-> pr.salary_max,
                       salary_amount |-> pr.salary_amount, remote_work |-> pr.remote_work,
                       has_salary_info |-> pr.has_salary_info,
                       extracted_locations |-> pr.extracted_locations,
                       education |-> pr.education, benefits |-> pr.benefits]]

Hits == {HitOf(JobIds[j], t, sc) : j \in 1..MaxJobs, t \in HitTypes, sc \in HitScores}

RECURSIVE HitListsOf(_)
HitListsOf(n) ==
    IF n = 0 THEN {<<>>}
    ELSE {Append(hs, h) : hs \in HitListsOf(n - 1), h \in Hits}

HitLists == UNION {HitListsOf(n) : n \in 0..MaxHits}

InitAgg ==
    /\ RerankIdle /\ IndexIdle /\ found_sections = Idle /\ OtherIdle
    /\ pc = "start"
    /\ chunk_results \in HitLists
    /\ aggregated_jobs = <<>>
    /\ text = Idle /\ strategy = Idle /\ processor = Idle /\ chunks = Idle
    /\ raw_text = Idle /\ cleaned = Idle
    /\ jobs = Idle /\ request = Idle /\ filtered_jobs = Idle

\* aggregated_jobs = self._aggregate_chunks_to_jobs(chunk_results): the call returns the
\* list, or ends with the exception and assigns nothing
Aggregate ==
    /\ UNCHANGED <<rerankVars, indexVars, found_sections, otherVars>>
    /\ pc = "start"
    /\ LET r == _aggregate_chunks_to_jobs(chunk_results) IN
           IF r.raised
           THEN pc' = r.value /\ UNCHANGED aggregated_jobs
           ELSE pc' = "done" /\ aggregated_jobs' = r.value
    /\ UNCHANGED <<chunk_results, text, strategy, processor, chunks, raw_text, cleaned,
                   jobs, request, filtered_jobs>>

NextAgg == Aggregate

SpecAgg == InitAgg /\ [][NextAgg]_vars

\* the hits of one job, and the aggregated job with that id
HitsOfJob(id) == SelectSeq(chunk_results, LAMBDA c : c.metadata.parent_job_id = id)

AggregatedOf(id) == {i \in 1..Len(aggregated_jobs) : aggregated_jobs[i].id = id}

GroupedIds == {chunk_results[i].metadata.parent_job_id : i \in 1..Len(chunk_results)}

\* C5: once _aggregate_chunks_to_jobs has ended for a non-empty list of hits, every job
\* that has hits has an aggregated job whose score is 0.7 * max + 0.3 * mean of the
\* scores of its hits, and that score lies between their minimum and their maximum
C5_AggregateScoreIsWeighted ==
    (pc # "start" /\ chunk_results # <<>>) =>
        /\ pc = "done"
        /\ \A id \in GroupedIds :
               \E i \in AggregatedOf(id) :
                   LET cs == HitsOfJob(id) IN
                   /\ 10 * aggregated_jobs[i].score * Len(cs)
                          = 7 * MaxScore(cs) * Len(cs) + 3 * SumScores(cs)
                   /\ MinScore(cs) <= aggregated_jobs[i].score
                   /\ aggregated_jobs[i].score <= MaxScore(cs)

\* position of a job id in the ascending order of job ids
IdRank(id) == CHOOSE j \in 1..MaxJobs : JobIds[j] = id

\* C9: once _aggregate_chunks_to_jobs has ended, it has returned a list ordered by score
\* descending and, among equal scores, by job id ascending
C9_OrderedByScoreThenId ==
    pc # "start" =>
        /\ pc = "done"
        /\ \A i \in 1..(Len(aggregated_jobs) - 1) :
               \/ aggregated_jobs[i].score > aggregated_jobs[i + 1].score
               \/ /\ aggregated_jobs[i].score = aggregated_jobs[i + 1].score
                  /\ IdRank(aggregated_jobs[i].id) < IdRank(aggregated_jobs[i + 1].id)

\* the representative metadata of an aggregated job is the snapshot of the hit
SnapshotOf(job, hit) ==
    /\ job.metadata.title = hit.metadata.title
    /\ job.metadata.skills = hit.metadata.skills
    /\ job.metadata.experience_level = hit.metadata.experience_level
    /\ job.metadata.experience_years = hit.metadata.experience_years
    /\ job.metadata.salary_min = hit.metadata.salary_min
    /\ job.metadata.salary_max = hit.metadata.salary_max
    /\ job.metadata.salary_amount = hit.metadata.salary_amount
    /\ job.metadata.remote_work = hit.metadata.remote_work
    /\ job.metadata.extracted_locations = hit.metadata.extracted_locations
    /\ job.metadata.education = hit.metadata.education
    /\ job.metadata.benefits = hit.metadata.benefits
    /\ job.metadata.best_chunk_type = hit.metadata.chunk_type

\* C10: once _aggregate_chunks_to_jobs has ended for a non-empty list of hits, whatever
\* their scores, every job that has hits has an aggregated job whose representative
\* metadata is the snapshot of one of its hits with the maximum score
C10_RepresentativeIsMaxScoreHit ==
    (pc # "start" /\ chunk_results # <<>>) =>
        /\ pc = "done"
        /\ \A id \in GroupedIds :
               \E i \in AggregatedOf(id) :
                   LET cs == HitsOfJob(id) IN
                   \E h \in 1..Len(cs) :
                       /\ cs[h].score = MaxScore(cs)
                       /\ SnapshotOf(aggregated_jobs[i], cs[h])

(***************************************************************************)
(* The pipeline of _ml_search: the hits are aggregated and the aggregated  *)
(* jobs are filtered                                                       *)
(***************************************************************************)
\* an aggregated job as _filter_jobs reads it: metadata.get('has_salary_info', False) on
\* the metadata of _aggregate_chunks_to_jobs, which has no such key
AsFilterInput(job) ==
    [job EXCEPT !.metadata =
        [k \in DOMAIN job.metadata \cup {"has_salary_info"} |->
            IF k \in DOMAIN job.metadata THEN job.metadata[k] ELSE FALSE]]

PipelineRequests == {EmptyRequest, [EmptyRequest EXCEPT !.has_salary_info = TRUE]}

InitPipeline ==
    /\ RerankIdle /\ IndexIdle /\ found_sections = Idle /\ OtherIdle
    /\ pc = "start"
    /\ chunk_results \in HitLists
    /\ request \in PipelineRequests
    /\ aggregated_jobs = <<>>
    /\ filtered_jobs = <<>>
    /\ text = Idle /\ strategy = Idle /\ processor = Idle /\ chunks = Idle
    /\ raw_text = Idle /\ cleaned = Idle /\ jobs = Idle

\* no matches: the empty response; else the hits are aggregated, and the aggregated jobs,
\* if any, are filtered; an exception of the aggregation ends the search
AggregateAndFilter ==
    /\ UNCHANGED <<rerankVars, indexVars, found_sections, otherVars>>
    /\ pc = "start"
    /\ IF chunk_results = <<>>
       THEN pc' = "done" /\ UNCHANGED <<aggregated_jobs, filtered_jobs>>
       ELSE LET r == _aggregate_chunks_to_jobs(chunk_results) IN
            IF r.raised
            THEN pc' = r.value /\ UNCHANGED <<aggregated_jobs, filtered_jobs>>
            ELSE /\ pc' = "done"
                 /\ aggregated_jobs' = r.value
                 /\ filtered_jobs' =
                        IF r.value = <<>> THEN filtered_jobs
                        ELSE _filter_jobs([i \in 1..Len(r.value) |-> AsFilterInput(r.value[i])],
                                          request)
    /\ UNCHANGED <<chunk_results, request, text, strategy, processor, chunks, raw_text,
                   cleaned, jobs>>

NextPipeline == AggregateAndFilter

SpecPipeline == InitPipeline /\ [][NextPipeline]_vars

\* some hit of the job carries salary information
CarriesSalary(id) ==
    \E h \in 1..Len(HitsOfJob(id)) :
        LET m == HitsOfJob(id)[h].metadata IN
        \/ m.has_salary_info
        \/ m.salary_min # NONE \/ m.salary_max # NONE \/ m.salary_amount # NONE

\* C11: once the pipeline has ended for hits and criteria with has_salary_info set, every
\* job whose hits carry salary information is in the filtered output, with the aggregate
\* score of its hits raised by 0.05
C11_SalaryJobsPassWithBoost ==
    (pc # "start" /\ request.has_salary_info) =>
        \A id \in GroupedIds :
            CarriesSalary(id) =>
                \E i \in 1..Len(filtered_jobs) :
                    /\ filtered_jobs[i].id = id
                    /\ filtered_jobs[i].score = Min(ONE, WeightedScore(HitsOfJob(id)) + ONE \div 20)

(***************************************************************************)
(* _filter_jobs under experience-years criteria                            *)
(***************************************************************************)
\* min_experience_years / max_experience_years: unset, or a value of the allowed 0..30
YearsBounds == {NONE, 0, 2, 5}

\* the extracted experience years of a job: none, or a non-negative integer
JobYears == {NONE, 0, 1, 3, 7}

YearsRequests ==
    {[EmptyRequest EXCEPT !.min_experience_years = lo, !.max_experience_years = hi] :
        lo \in YearsBounds, hi \in YearsBounds}

YearsJob(i, y) ==
    JobOf(JobName(i), <<"a">>, <<>>, [BareProfile EXCEPT !.experience_years = y])

YearsJobLists ==
    UNION {{[i \in 1..n |-> YearsJob(i, ys[i])] : ys \in [1..n -> JobYears]} : n \in 0..MaxJobs}

InitYears ==
    /\ RerankIdle /\ IndexIdle /\ found_sections = Idle /\ OtherIdle
    /\ pc = "start"
    /\ jobs \in YearsJobLists
    /\ request \in YearsRequests
    /\ filtered_jobs = <<>>
    /\ text = Idle /\ strategy = Idle /\ processor = Idle /\ chunks = Idle
    /\ raw_text = Idle /\ cleaned = Idle
    /\ chunk_results = Idle /\ aggregated_jobs = Idle

SpecYears == InitYears /\ [][NextFilter]_vars

\* the output entry of the job, if any
OutputOf(id) == {i \in 1..Len(filtered_jobs) : filtered_jobs[i].id = id}

\* C12: with min_experience_years and/or max_experience_years set, a job with extracted
\* experience years is in the output of _filter_jobs only if its years lie inside
\* [min, max], and then its score is raised by 0.15
C12_YearsInsideRange ==
    (pc = "done" /\ (request.min_experience_years # NONE \/ request.max_experience_years # NONE)) =>
        \A j \in 1..Len(jobs) :
            LET years == jobs[j].metadata.experience_years IN
            years # NONE =>
                \A i \in OutputOf(jobs[j].id) :
                    /\ request.min_experience_years # NONE => years >= request.min_experience_years
                    /\ request.max_experience_years # NONE => years <= request.max_experience_years
                    /\ filtered_jobs[i].score = Min(ONE, jobs[j].score + (3 * ONE) \div 20)

(***************************************************************************)
(* _filter_jobs under education and benefits criteria                      *)
(***************************************************************************)
TermLists == { <<>>, << <<"A">> >>, << <<"a">>, <<"b">> >> }

ExtractedLists == { <<>>, << <<"a">> >> }

TermRequests ==
    {[EmptyRequest EXCEPT !.required_education = ed, !.required_benefits = be] :
        ed \in TermLists, be \in TermLists}

TermJob(i, t, ed, be) ==
    JobOf(JobName(i), t, <<>>, [BareProfile EXCEPT !.education = ed, !.benefits = be])

TermJobsAt(i) ==
    {TermJob(i, t, ed, be) : t \in {<<>>, <<"b">>}, ed \in ExtractedLists, be \in ExtractedLists}

RECURSIVE TermJobListsOf(_)
TermJobListsOf(n) ==
    IF n = 0 THEN {<<>>}
    ELSE {Append(js, j) : <<js, j>> \in TermJobListsOf(n - 1) \X TermJobsAt(n)}

TermJobLists == UNION {TermJobListsOf(n) : n \in 0..MaxJobs}

InitTerms ==
    /\ RerankIdle /\ IndexIdle /\ found_sections = Idle /\ OtherIdle
    /\ pc = "start"
    /\ jobs \in TermJobLists
    /\ request \in TermRequests
    /\ filtered_jobs = <<>>
    /\ text = Idle /\ strategy = Idle /\ processor = Idle /\ chunks = Idle
    /\ raw_text = Idle /\ cleaned = Idle
    /\ chunk_results = Idle /\ aggregated_jobs = Idle

SpecTerms == InitTerms /\ [][NextFilter]_vars

\* the term is matched by the extracted list or, as fallback, by the combined text
TermMatched(term, extracted, job) ==
    \/ \E e \in 1..Len(extracted) : IsSubstr(LowerStr(term), LowerStr(extracted[e]))
    \/ IsSubstr(LowerStr(term), LowerStr(job.metadata.text))

\* C13: a job is in the output of _filter_jobs only if every term of required_education
\* is matched by its extracted education or its text and every term of required_benefits
\* by its extracted benefits or its text, and its score is then raised by a flat 0.10 for
\* each of the two categories that is set
C13_EveryRequiredTermMatched ==
    pc = "done" =>
        \A j \in 1..Len(jobs) :
            \A i \in OutputOf(jobs[j].id) :
                /\ \A r \in 1..Len(request.required_education) :
                       TermMatched(request.required_education[r], jobs[j].metadata.education, jobs[j])
                /\ \A r \in 1..Len(request.required_benefits) :
                       TermMatched(request.required_benefits[r], jobs[j].metadata.benefits, jobs[j])
                /\ filtered_jobs[i].score =
                       Min(ONE, jobs[j].score
                                + (IF request.required_education # <<>> THEN ONE \div 10 ELSE 0)
                                + (IF request.required_benefits # <<>> THEN ONE \div 10 ELSE 0))

(***************************************************************************)
(* _filter_jobs under preferred_skills and locations criteria              *)
(***************************************************************************)
PreferredLists == { <<>>, << <<"a">> >>, << <<"A">>, <<"c">> >> }

LocationLists == { <<>>, << <<"B">> >>, << <<"b">>, <<"c">> >> }

PrefLocRequests ==
    {[EmptyRequest EXCEPT !.preferred_skills = ps, !.locations = ls] :
        ps \in PreferredLists, ls \in LocationLists}

PrefLocJobsAt(i) ==
    {JobOf(JobName(i), t, sk, [BareProfile EXCEPT !.extracted_locations = el]) :
        t \in FilterTexts, sk \in JobSkills, el \in {<<>>, << <<"b">> >>}}

RECURSIVE PrefLocJobListsOf(_)
PrefLocJobListsOf(n) ==
    IF n = 0 THEN {<<>>}
    ELSE {Append(js, j) : <<js, j>> \in PrefLocJobListsOf(n - 1) \X PrefLocJobsAt(n)}

PrefLocJobLists == UNION {PrefLocJobListsOf(n) : n \in 0..MaxJobs}

InitPrefLoc ==
    /\ RerankIdle /\ IndexIdle /\ found_sections = Idle /\ OtherIdle
    /\ pc = "start"
    /\ jobs \in PrefLocJobLists
    /\ request \in PrefLocRequests
    /\ filtered_jobs = <<>>
    /\ text = Idle /\ strategy = Idle /\ processor = Idle /\ chunks = Idle
    /\ raw_text = Idle /\ cleaned = Idle
    /\ chunk_results = Idle /\ aggregated_jobs = Idle

SpecPrefLoc == InitPrefLoc /\ [][NextFilter]_vars

\* the entries of the given output for the job
EntriesOf(out, id) == {i \in 1..Len(out) : out[i].id = id}

ManyJob(i) ==
    JobOf(JobName(i),
          IF i % 2 = 0 THEN <<"a">> ELSE <<"A", "b">>,
          IF i % 4 = 0 THEN << <<"A">> >> ELSE <<>>,
          [(IF i % 3 = 0 THEN RichProfile ELSE BareProfile) EXCEPT
              !.score = CASE i % 5 = 0 -> 0 - (ONE \div 10)
                          [] i % 5 = 1 -> (19 * ONE) \div 20
                          [] i % 5 = 2 -> ONE \div 2
                          [] i % 5 = 3 -> (3 * ONE) \div 10
                          [] OTHER -> (7 * ONE) \div 10])

ManyJobLists == {[i \in 1..n |-> ManyJob(i)] : n \in 0..MaxCandidates}

InitCap ==
    /\ RerankIdle /\ IndexIdle /\ found_sections = Idle /\ OtherIdle
    /\ pc = "start"
    /\ jobs \in ManyJobLists
    /\ request \in Requests
    /\ filtered_jobs = <<>>
    /\ text = Idle /\ strategy = Idle /\ processor = Idle /\ chunks = Idle
    /\ raw_text = Idle /\ cleaned = Idle
    /\ chunk_results = Idle /\ aggregated_jobs = Idle

SpecCap == InitCap /\ [][NextFilter]_vars

\* C15: each entry of the output of _filter_jobs has score = min(1.0, the job's score +
\* the sum of the boosts of the rules), every boost being non-negative, so that the score
\* lies between min(1.0, the job's score) and 1.0; the output is sorted by score
\* descending and holds at most 50 entries
C15_BoostedSortedCapped ==
    pc = "done" =>
        /\ Len(filtered_jobs) <= 50
        /\ \A i \in 1..(Len(filtered_jobs) - 1) :
               filtered_jobs[i].score >= filtered_jobs[i + 1].score
        /\ \A i \in 1..Len(filtered_jobs) :
               \E j \in 1..Len(jobs) :
                   /\ jobs[j].id = filtered_jobs[i].id
                   /\ \A r \in 1..Len(RulesOf(jobs[j], request)) :
                          RulesOf(jobs[j], request)[r].boost >= 0
                   /\ filtered_jobs[i].score
                          = Min(ONE, jobs[j].score + SumBoosts(RulesOf(jobs[j], request)))
                   /\ filtered_jobs[i].score >= Min(ONE, jobs[j].score)
                   /\ filtered_jobs[i].score <= ONE

C15_Witness ==
    /\ pc = "done"
    /\ Len(jobs) > 50
    /\ Len(SelectSeq(jobs, LAMBDA j : Included(j, request))) > 50
    /\ Len(filtered_jobs) = 50
    /\ \E i \in 1..Len(filtered_jobs) : \E j \in 1..Len(jobs) :
           /\ jobs[j].id = filtered_jobs[i].id
           /\ filtered_jobs[i].score = ONE
           /\ jobs[j].score + relevance_boost(jobs[j], request) > ONE
    /\ \E i \in 1..Len(filtered_jobs) : \E j \in 1..Len(jobs) :
           /\ jobs[j].id = filtered_jobs[i].id
           /\ filtered_jobs[i].score > jobs[j].score
           /\ filtered_jobs[i].score < ONE

(***************************************************************************)
(* JobReranker.rerank_jobs (src/reranker.py) and _format_results           *)
(***************************************************************************)
\* dict.get(key, default)
Get(d, key, default) == IF key \in DOMAIN d THEN d[key] ELSE default

\* jobs[:top_k], top_k >= 0
Prefix(js, k) == SubSeq(js, 1, Min(k, Len(js)))

\* job.copy() with vector_score, cross_score and score set
Rescored(job, cross) ==
    [k \in DOMAIN job \cup {"vector_score", "cross_score"} |->
        CASE k = "vector_score" -> Get(job, "score", 0)
          [] k = "cross_score" -> cross
          [] k = "score" -> cross
          [] OTHER -> job[k]]

\* list.sort(key=lambda x: x['cross_score'], reverse=True): stable, descending
RECURSIVE SortByCrossDesc(_)
SortByCrossDesc(xs) ==
    IF xs = <<>> THEN <<>>
    ELSE LET sorted == SortByCrossDesc(SubSeq(xs, 1, Len(xs) - 1))
             x == xs[Len(xs)]
             k == Cardinality({i \in 1..Len(sorted) : sorted[i].cross_score >= x.cross_score})
         IN  SubSeq(sorted, 1, k) \o <<x>> \o SubSeq(sorted, k + 1, Len(sorted))

\* a variant of rerank_jobs that returns every job when there is no model
RerankUnsliced(m, js, k, cross_scores) ==
    IF m = "unavailable" THEN js
    ELSE IF js = <<>> THEN <<>>
    ELSE IF m = "raises" THEN Prefix(js, k)
    ELSE Prefix(SortByCrossDesc([i \in 1..Len(js) |-> Rescored(js[i], cross_scores[i])]), k)

\* rerank_jobs(query, jobs, top_k) with self.model = m: "unavailable" is no model,
\* "raises" a model whose predict raises, "predicts" one that returns cross_scores
rerank_jobs(m, js, k, cross_scores) ==
    IF m = "unavailable" THEN Prefix(js, k)
    ELSE IF js = <<>> THEN <<>>
    ELSE IF m = "raises" THEN Prefix(js, k)
    ELSE Prefix(SortByCrossDesc([i \in 1..Len(js) |-> Rescored(js[i], cross_scores[i])]), k)

\* the JobResult of one job (the score fields, the id and the text)
JobResult(job) ==
    [id |-> job.id,
     score |-> Get(job, "cross_score", Get(job, "score", 0)),
     text |-> Get(job.metadata, "text", Get(job, "text", <<>>)),
     vector_score |-> Get(job, "vector_score", Get(job, "score", 0)),
     cross_score |-> Get(job, "cross_score", Get(job, "score", 0))]

_format_results(rs) == [i \in 1..Len(rs) |-> JobResult(rs[i])]

\* the candidates: an output of _filter_jobs, in boosted-score order
CandidateScores == {(3 * ONE) \div 10, ONE \div 2, (9 * ONE) \div 10}

CandidateLists ==
    UNION {{_filter_jobs([i \in 1..n |->
                             JobOf(JobName(i), <<"a">>, <<>>, [BareProfile EXCEPT !.score = sc[i]])],
                         EmptyRequest) :
               sc \in [1..n -> CandidateScores]} : n \in 0..MaxRerank}

CrossScores == {ONE \div 5, (7 * ONE) \div 10}

Models == {"unavailable", "raises", "predicts"}

InitRerank ==
    /\ IndexIdle /\ found_sections = Idle /\ OtherIdle
    /\ pc = "start"
    /\ model \in Models
    /\ filtered_jobs \in CandidateLists
    /\ top_k \in 1..MaxTopK
    /\ reranked_results = <<>>
    /\ final_results = <<>>
    /\ text = Idle /\ strategy = Idle /\ processor = Idle /\ chunks = Idle
    /\ raw_text = Idle /\ cleaned = Idle /\ jobs = Idle /\ request = Idle
    /\ chunk_results = Idle /\ aggregated_jobs = Idle

\* reranked_results = rerank_jobs(query, filtered_candidates, top_k)
Rerank ==
    /\ UNCHANGED <<found_sections, otherVars>>
    /\ pc = "start"
    /\ \E cross_scores \in [1..Len(filtered_jobs) -> CrossScores] :
           reranked_results' = rerank_jobs(model, filtered_jobs, top_k, cross_scores)
    /\ pc' = "reranked"
    /\ UNCHANGED <<model, top_k, final_results, filtered_jobs, indexVars, text, strategy,
                   processor, chunks, raw_text, cleaned, jobs, request, chunk_results,
                   aggregated_jobs>>

\* final_results = self._format_results(reranked_results)
FormatResults ==
    /\ UNCHANGED <<found_sections, otherVars>>
    /\ pc = "reranked"
    /\ final_results' = _format_results(reranked_results)
    /\ pc' = "done"
    /\ UNCHANGED <<model, top_k, reranked_results, filtered_jobs, indexVars, text, strategy,
                   processor, chunks, raw_text, cleaned, jobs, request, chunk_results,
                   aggregated_jobs>>

NextRerank == Rerank \/ FormatResults

SpecRerank == InitRerank /\ [][NextRerank]_vars

\* C16: when the model is unavailable or its prediction raises, rerank_jobs ends
\* normally with the first min(top_k, len(candidates)) candidates in their incoming
\* order, and each of them is reported with cross_score equal to vector_score
C16_FallbackKeepsTopK ==
    /\ pc \in {"start", "reranked", "done"}
    /\ (pc # "start" /\ model \in {"unavailable", "raises"}) =>
           /\ Len(reranked_results) = Min(top_k, Len(filtered_jobs))
           /\ \A i \in 1..Len(reranked_results) : reranked_results[i] = filtered_jobs[i]
    /\ (pc = "done" /\ model \in {"unavailable", "raises"}) =>
           /\ Len(final_results) = Len(reranked_results)
           /\ \A i \in 1..Len(final_results) :
                  /\ final_results[i].id = filtered_jobs[i].id
                  /\ final_results[i].cross_score = final_results[i].vector_score
                  /\ final_results[i].vector_score = filtered_jobs[i].score

C16_Witness ==
    /\ pc = "done"
    /\ model = "raises"
    /\ top_k = 2
    /\ Len(filtered_jobs) = 3
    /\ Len(final_results) = 2
    /\ filtered_jobs[1].score > filtered_jobs[2].score

(***************************************************************************)
(* embed_and_index (src/src/job_search/ml/indexing.py)                     *)
(*                                                                         *)
(* A job is [id, chunk_count]: chunk_count is the number of chunks that    *)
(* process_job_text returns for it (a job whose processing raises is       *)
(* skipped by lines 135-137 and adds no chunk, like one with no chunks).   *)
(* get_embedding and index.upsert are the environment: each call either    *)
(* returns or raises.                                                      *)
(***************************************************************************)
IndexJobLists ==
    UNION {{[i \in 1..n |-> [id |-> JobName(i), chunk_count |-> cc[i]]] :
               cc \in [1..n -> 0..MaxJobChunks]} : n \in 0..MaxJobs}

\* the chunks of one job, and all_chunks after the loop over the jobs
ChunksOfJob(job) ==
    [k \in 1..job.chunk_count |-> [parent_job_id |-> job.id, chunk_index |-> k - 1]]

RECURSIVE AllChunks(_)
AllChunks(js) == IF js = <<>> THEN <<>> ELSE ChunksOfJob(Head(js)) \o AllChunks(Tail(js))

InitIndex ==
    /\ RerankIdle /\ found_sections = Idle /\ OtherIdle
    /\ pc = "start"
    /\ jobs \in IndexJobLists
    /\ batch_size \in 1..MaxBatch
    /\ all_chunks = <<>>
    /\ position = 0
    /\ vectors_batch = <<>>
    /\ upserts = <<>>
    /\ failed_chunks = {}
    /\ text = Idle /\ strategy = Idle /\ processor = Idle /\ chunks = Idle
    /\ raw_text = Idle /\ cleaned = Idle /\ request = Idle /\ filtered_jobs = Idle
    /\ chunk_results = Idle /\ aggregated_jobs = Idle

\* step 1: the jobs are processed into all_chunks; the call returns when there is no job
\* or no chunk
ProcessJobs ==
    /\ UNCHANGED <<found_sections, otherVars>>
    /\ pc = "start"
    /\ all_chunks' = AllChunks(jobs)
    /\ pc' = IF jobs = <<>> \/ AllChunks(jobs) = <<>> THEN "returned" ELSE "loop"
    /\ UNCHANGED <<jobs, batch_size, position, vectors_batch, upserts, failed_chunks,
                   rerankVars, text, strategy, processor, chunks, raw_text, cleaned,
                   request, filtered_jobs, chunk_results, aggregated_jobs>>

\* vectors_batch after the call index.upsert(vectors=batch): emptied when the call
\* returned; when it raised, the raise of line 217 is caught by the except of line 219,
\* the loop continues and the batch is kept
\* a variant that starts a new batch after every upsert call, failed or not
BatchDiscardedAfterUpsert(batch, upsert_ok) == <<>>

BatchAfterUpsert(batch, upsert_ok) == IF upsert_ok THEN <<>> ELSE batch

\* step 2, one pass of the loop over all_chunks; when get_embedding raises, the except of
\* line 219 logs the failure and the loop continues with the next chunk
ProcessChunk ==
    /\ UNCHANGED <<found_sections, otherVars>>
    /\ pc = "loop"
    /\ position < Len(all_chunks)
    /\ LET chunk == all_chunks[position + 1]
           batch == Append(vectors_batch, ChunkId(chunk))
       IN  \E embed_ok \in BOOLEAN, upsert_ok \in BOOLEAN :
               IF ~embed_ok
               THEN /\ failed_chunks' = failed_chunks \cup {ChunkId(chunk)}
                    /\ pc' = "loop"
                    /\ UNCHANGED <<vectors_batch, upserts>>
               ELSE /\ pc' = "loop"
                    /\ UNCHANGED failed_chunks
                    /\ IF Len(batch) >= batch_size
                       THEN /\ upserts' = Append(upserts, [vectors |-> batch, ok |-> upsert_ok])
                            /\ vectors_batch' = BatchAfterUpsert(batch, upsert_ok)
                       ELSE /\ vectors_batch' = batch
                            /\ UNCHANGED upserts
    /\ position' = position + 1
    /\ UNCHANGED <<jobs, batch_size, all_chunks, rerankVars, text, strategy, processor,
                   chunks, raw_text, cleaned, request, filtered_jobs, chunk_results,
                   aggregated_jobs>>

\* the final batch after the loop: a failure of this upsert is raised to the caller
FinishIndexing ==
    /\ UNCHANGED <<found_sections, otherVars>>
    /\ pc = "loop"
    /\ position = Len(all_chunks)
    /\ IF vectors_batch # <<>>
       THEN \E upsert_ok \in BOOLEAN :
                /\ upserts' = Append(upserts, [vectors |-> vectors_batch, ok |-> upsert_ok])
                /\ pc' = IF upsert_ok THEN "returned" ELSE "raised"
       ELSE pc' = "returned" /\ UNCHANGED upserts
    /\ UNCHANGED <<jobs, batch_size, all_chunks, position, vectors_batch, failed_chunks,
                   rerankVars, text, strategy, processor, chunks, raw_text, cleaned,
                   request, filtered_jobs, chunk_results, aggregated_jobs>>

NextIndex == ProcessJobs \/ ProcessChunk \/ FinishIndexing

SpecIndex == InitIndex /\ [][NextIndex]_vars

\* C17: every index.upsert call carries at most batch_size vectors, and a call of
\* embed_and_index that returned without any failure has made
\* ceil(len(all_chunks) / batch_size) upsert calls
C17_UpsertsBounded ==
    /\ \A u \in 1..Len(upserts) : Len(upserts[u].vectors) <= batch_size
    /\ (/\ pc = "returned"
        /\ failed_chunks = {}
        /\ \A u \in 1..Len(upserts) : upserts[u].ok) =>
           Len(upserts) = (Len(all_chunks) + batch_size - 1) \div batch_size

\* C18: a call of embed_and_index in which get_embedding raised for some chunk does not
\* return normally
C18_EmbeddingFailureSurfaces ==
    pc = "returned" => failed_chunks = {}

(***************************************************************************)
(* The hybrid strategy of create_chunks                                    *)
(***************************************************************************)
\* the strategy the hybrid strategy stands for on the text
DispatchedStrategy(s) ==
    IF Len(identify_sections(s)) > 1 THEN "sections" ELSE "overlapping"

\* the list holds a chunk of the overlapping windows next to a chunk of a section
MixesStrategies(cs) ==
    /\ \E i \in 1..Len(cs) : cs[i].chunk_type = "segment"
    /\ \E i \in 1..Len(cs) : cs[i].chunk_type \notin {"segment", "full"}

\* C19: the result of create_chunks with the hybrid strategy is the result of the
\* sections strategy when identify_sections finds more than one section type and the
\* result of the overlapping strategy otherwise, and never holds chunks of both
C19_HybridDispatches ==
    (pc = "done" /\ strategy = "hybrid") =>
        /\ chunks = create_chunks(text, JobId, DispatchedStrategy(text), processor)
        /\ ~MixesStrategies(chunks)

C19_Witness ==
    /\ pc = "done"
    /\ strategy = "hybrid"
    /\ Len(identify_sections(text)) > 1
    /\ chunks # <<>>
    /\ chunks = create_chunks(text, JobId, "sections", processor)
    /\ create_chunks(text, JobId, "overlapping", processor) # <<>>
    /\ chunks # create_chunks(text, JobId, "overlapping", processor)

(***************************************************************************)
(* identify_sections on texts in which headers recur                       *)
(***************************************************************************)
SectionLinesAt(li) ==
    { <<"Responsibilities">>, <<"Requirements", ":">>, <<>>, <<" ">> \o ContentLine(li, 1) }

RECURSIVE SectionTextsOf(_)
SectionTextsOf(n) ==
    IF n = 0 THEN {<<>>}
    ELSE IF n = 1 THEN SectionLinesAt(1)
    ELSE {t \o <<"\n">> \o l : <<t, l>> \in SectionTextsOf(n - 1) \X SectionLinesAt(n)}

SectionTexts == UNION {SectionTextsOf(n) : n \in 0..MaxSectionLines}

InitSections ==
    /\ RerankIdle /\ IndexIdle
    /\ pc = "start"
    /\ text \in SectionTexts
    /\ found_sections = <<>>
    /\ OtherIdle
    /\ strategy = Idle /\ processor = Idle /\ chunks = Idle
    /\ raw_text = Idle /\ cleaned = Idle
    /\ jobs = Idle /\ request = Idle /\ filtered_jobs = Idle
    /\ chunk_results = Idle /\ aggregated_jobs = Idle

\* sections = self.identify_sections(text)
IdentifySections ==
    /\ pc = "start"
    /\ found_sections' = identify_sections(text)
    /\ UNCHANGED otherVars
    /\ pc' = "done"
    /\ UNCHANGED <<text, strategy, processor, chunks, raw_text, cleaned, jobs, request,
                   filtered_jobs, chunk_results, aggregated_jobs, rerankVars, indexVars>>

NextSections == IdentifySections

SpecSections == InitSections /\ [][NextSections]_vars

\* the stripped lines of the text; a header line, a content line
TextLines == [i \in 1..Len(SplitOn(text, "\n")) |-> Strip(SplitOn(text, "\n")[i])]

IsHeaderLine(i) == TextLines[i] # <<>> /\ SectionFound(TextLines[i]) # NoneStr

IsContentLine(i) == TextLines[i] # <<>> /\ SectionFound(TextLines[i]) = NoneStr

\* the header line that governs line i (0: no header yet), and the type it opens
HeaderBefore(i) ==
    LET hs == {h \in 1..(i - 1) : IsHeaderLine(h)} IN
    IF hs = {} THEN 0 ELSE CHOOSE h \in hs : \A g \in hs : g <= h

TypeOpenedAt(h) == IF h = 0 THEN "summary" ELSE SectionFound(TextLines[h])

\* the content lines collected after header h, in order, joined
BlockLines(h) == {i \in 1..Len(TextLines) : IsContentLine(i) /\ HeaderBefore(i) = h}

BlockContent(h) ==
    Join(SelectSeq([i \in 1..Len(TextLines) |->
                       IF i \in BlockLines(h) THEN TextLines[i] ELSE <<>>],
                   LAMBDA l : l # <<>>),
         <<"\n">>)

\* the headers (0 for the lines before the first header) that open a block with content
\* of the type
BlocksOfType(t) ==
    {h \in 0..Len(TextLines) :
        /\ h = 0 \/ IsHeaderLine(h)
        /\ TypeOpenedAt(h) = t
        /\ BlockLines(h) # {}}

\* C20: identify_sections stores the lines before the first header under summary, and
\* for a section type whose header occurs several times it stores the content collected
\* after the last of these headers that has content, not the contents appended
C20_LaterContentOverwrites ==
    pc = "done" =>
        /\ \A k \in 1..Len(found_sections) : BlocksOfType(found_sections[k].key) # {}
        /\ \A t \in {"summary"} \cup {SectionTypes[x] : x \in 1..Len(SectionTypes)} :
               BlocksOfType(t) # {} =>
                   LET last == CHOOSE h \in BlocksOfType(t) : \A g \in BlocksOfType(t) : g <= h
                   IN  \E k \in 1..Len(found_sections) :
                           /\ found_sections[k].key = t
                           /\ found_sections[k].value = BlockContent(last)

C20_Witness ==
    /\ pc = "done"
    /\ BlocksOfType("summary") = {0}
    /\ Cardinality(BlocksOfType("responsibilities")) = 2
    /\ \E k \in 1..Len(found_sections) :
           /\ found_sections[k].key = "responsibilities"
           /\ Len(Words(found_sections[k].value)) = 1


(***************************************************************************)
(* create_chunks on the example texts: the two sections of the example,    *)
(* each with its header on the content line or on a line of its own       *)
(***************************************************************************)
ResponsibilitiesContent ==
    <<"Build", " ", "APIs", " ", "and", " ", "ship", " ", "features", ".">>

RequirementsContent == <<"5", " ", "years", " ", "Python", " ", "experience", ".">>

\* the section with its header and content on one line, or on two
SectionForms(header, content) ==
    { <<header, ":", " ">> \o content, <<header, ":", "\n">> \o content }

ExampleTexts ==
    { r \o <<"\n">> \o q :
        <<r, q>> \in SectionForms("Responsibilities", ResponsibilitiesContent)
                     \X SectionForms("Requirements", RequirementsContent) }

\* "Responsibilities: Build APIs and ship features.\nRequirements: 5 years Python experience."
ExampleText ==
    <<"Responsibilities", ":", " ">> \o ResponsibilitiesContent \o <<"\n">>
    \o <<"Requirements", ":", " ">> \o RequirementsContent

\* max_chunk_size = 50, overlap_size 10 or the default 50
ExampleProcessors ==
    {[max_chunk_size |-> 50, overlap_size |-> o, min_chunk_size |-> n] :
        <<o, n>> \in {10, 50} \X (1..MaxExampleMin)}

InitExample ==
    /\ RerankIdle /\ IndexIdle /\ found_sections = Idle /\ OtherIdle
    /\ pc = "start"
    /\ text \in ExampleTexts
    /\ strategy \in Strategies
    /\ processor \in ExampleProcessors
    /\ chunks = <<>>
    /\ raw_text = Idle /\ cleaned = Idle
    /\ jobs = Idle /\ request = Idle /\ filtered_jobs = Idle
    /\ chunk_results = Idle /\ aggregated_jobs = Idle

SpecExample == InitExample /\ [][NextChunks]_vars

\* create_chunks has returned for the example call of the specification
ExampleCallDone ==
    /\ pc = "done"
    /\ text = ExampleText
    /\ strategy = "sections"
    /\ processor.min_chunk_size = 3
    /\ processor.max_chunk_size = 50

\* C21: for the example text, min_chunk_size 3, max_chunk_size 50 and the sections
\* strategy, create_chunks returns exactly three chunks: responsibilities with 5 words,
\* requirements with 6 words, and full with 11 words and confidence 0.8
C21_ExampleGivesThreeChunks ==
    ExampleCallDone =>
        /\ Len(chunks) = 3
        /\ chunks[1].chunk_type = "responsibilities" /\ chunks[1].word_count = 5
        /\ chunks[2].chunk_type = "requirements" /\ chunks[2].word_count = 6
        /\ chunks[3].chunk_type = "full" /\ chunks[3].word_count = 11
        /\ chunks[3].confidence_score = (8 * ONE) \div 10

\* C21 (amended): for the example text neither line is a header, because content
\* follows the header phrase on the line; create_chunks returns exactly two chunks,
\* summary with 11 words and full with 11 words and confidence 0.8, both holding the
\* whole text.  With each header on a line of its own it returns the responsibilities
\* chunk of 5 words, the requirements chunk of 4 words and the full chunk of 11 words.
C21_ExampleGivesSummaryAndFull ==
    /\ ExampleCallDone =>
           /\ Len(chunks) = 2
           /\ chunks[1].chunk_type = "summary" /\ chunks[1].word_count = 11
           /\ chunks[1].text = text
           /\ chunks[2].chunk_type = "full" /\ chunks[2].word_count = 11
           /\ chunks[2].text = text
           /\ chunks[2].confidence_score = (8 * ONE) \div 10
    /\ ( /\ pc = "done" /\ strategy = "sections"
         /\ processor.min_chunk_size = 3
         /\ text = <<"Responsibilities", ":", "\n">> \o ResponsibilitiesContent \o <<"\n">>
                   \o <<"Requirements", ":", "\n">> \o RequirementsContent )
       => /\ Len(chunks) = 3
          /\ chunks[1].chunk_type = "responsibilities" /\ chunks[1].word_count = 5
          /\ chunks[2].chunk_type = "requirements" /\ chunks[2].word_count = 4
          /\ chunks[3].chunk_type = "full" /\ chunks[3].word_count = 11

C21_Witness == ExampleCallDone /\ Len(chunks) = 2 /\ chunks[1].chunk_type = "summary"


(***************************************************************************)
(* clean_text on texts of sentences: content sentences and boilerplate     *)
(* sentences, on one line or on lines of their own                         *)
(***************************************************************************)
\* the sentences that may stand at place i: one or two content words, or "to apply."
SentencesAt(i) ==
    { <<Letters[2 * i - 1], ".">>,
      <<Letters[2 * i - 1], " ", Letters[2 * i], ".">>,
      <<"to", " ", "apply", ".">> }

\* lists of i sentences, each but the first with the separator that precedes it
RECURSIVE SentenceListsOf(_)
SentenceListsOf(i) ==
    IF i = 0 THEN {<<>>}
    ELSE {Append(l, [sep |-> sep, sentence |-> sen]) :
             <<l, sep, sen>> \in SentenceListsOf(i - 1) \X {" ", "\n"} \X SentencesAt(i)}

RECURSIVE TextOfSentences(_)
TextOfSentences(l) ==
    IF l = <<>> THEN <<>>
    ELSE IF Len(l) = 1 THEN l[1].sentence
    ELSE TextOfSentences(SubSeq(l, 1, Len(l) - 1)) \o <<l[Len(l)].sep>> \o l[Len(l)].sentence

SentenceTexts ==
    {TextOfSentences(l) : l \in UNION {SentenceListsOf(i) : i \in 0..MaxSentences}}

InitSentences ==
    /\ RerankIdle /\ IndexIdle /\ found_sections = Idle /\ OtherIdle
    /\ pc = "start"
    /\ raw_text \in SentenceTexts
    /\ cleaned = <<>>
    /\ text = Idle /\ strategy = Idle /\ processor = Idle /\ chunks = Idle
    /\ jobs = Idle /\ request = Idle /\ filtered_jobs = Idle
    /\ chunk_results = Idle /\ aggregated_jobs = Idle

SpecSentences == InitSentences /\ [][NextClean]_vars

\* the sentences of a text: the runs that end in "." , without the whitespace around them
RECURSIVE SentencesOf(_)
SentencesOf(s) ==
    LET t == LStrip(s) IN
    IF \A i \in 1..Len(t) : t[i] # "." THEN {}
    ELSE LET k == CHOOSE i \in 1..Len(t) : t[i] = "." /\ \A j \in 1..(i - 1) : t[j] # "."
         IN  {SubSeq(t, 1, k)} \cup SentencesOf(SubSeq(t, k + 1, Len(t)))

\* some boilerplate phrase occurs in the sentence
HoldsBoilerplatePhrase(sen) ==
    \E k \in 1..Len(boilerplate_patterns) :
        \E q \in 0..Len(sen) : PhraseEnd(sen, q, boilerplate_patterns[k]) # -1

\* C22: every sentence of the input that holds no boilerplate phrase stands intact in the
\* string clean_text returns, also when a boilerplate sentence follows it on its line
C22_OtherSentencesIntact ==
    pc = "done" =>
        \A sen \in SentencesOf(raw_text) :
            ~HoldsBoilerplatePhrase(sen) => IsSubstr(sen, cleaned)


(***************************************************************************)
(* JobMetadataExtractor.extract_salary_regex.  A match of a pattern is the *)
(* sequence of its captured groups, <<>> when the pattern does not match.  *)
(***************************************************************************)
Dashes == {"-", "endash", "emdash"}     \* hyphen, U+2013, U+2014

DigitValue(c) ==
    CASE c = "0" -> 0 [] c = "1" -> 1 [] c = "2" -> 2 [] c = "3" -> 3 [] c = "4" -> 4
      [] c = "5" -> 5 [] c = "6" -> 6 [] c = "7" -> 7 [] c = "8" -> 8 [] c = "9" -> 9

\* int(s.replace(',', ''))
RECURSIVE ToInt(_)
ToInt(s) ==
    IF s = <<>> THEN 0
    ELSE IF s[Len(s)] = "," THEN ToInt(SubSeq(s, 1, Len(s) - 1))
    ELSE 10 * ToInt(SubSeq(s, 1, Len(s) - 1)) + DigitValue(s[Len(s)])

\* number of digits from position q on, at most `most`
RECURSIVE DigitRun(_, _, _)
DigitRun(s, q, most) ==
    IF most > 0 /\ q < Len(s) /\ s[q + 1] \in Digits
    THEN 1 + DigitRun(s, q + 1, most - 1) ELSE 0

\* (?:,\d{3})* from position e: the position after the last group
RECURSIVE GroupsEnd(_, _)
GroupsEnd(s, e) ==
    IF e + 4 <= Len(s) /\ s[e + 1] = "," /\ DigitRun(s, e + 1, 3) = 3
    THEN GroupsEnd(s, e + 4) ELSE e

\* \d{1,3}(?:,\d{3})* from position q: the position after it, -1 when it does not match
AmountEnd(s, q) ==
    IF DigitRun(s, q, 3) = 0 THEN -1 ELSE GroupsEnd(s, q + DigitRun(s, q, 3))

\* (\d{2,3})k from position q: the position after the digits, -1 when it does not match
KDigitsEnd(s, q) ==
    IF DigitRun(s, q, 3) = 3 /\ q + 3 < Len(s) /\ Lower(s[q + 4]) = "k" THEN q + 3
    ELSE IF DigitRun(s, q, 2) = 2 /\ q + 2 < Len(s) /\ Lower(s[q + 3]) = "k" THEN q + 2
    ELSE -1

\* <word>[:\s]* from position p: the position after it, -1 when it does not match
RECURSIVE SkipColonsAndSpaces(_, _)
SkipColonsAndSpaces(s, q) ==
    IF q < Len(s) /\ (s[q + 1] = ":" \/ IsSpace(s[q + 1]))
    THEN SkipColonsAndSpaces(s, q + 1) ELSE q

ContextEnd(s, p, word) ==
    IF word = NoneStr THEN p
    ELSE IF p < Len(s) /\ Lower(s[p + 1]) = word THEN SkipColonsAndSpaces(s, p + 1)
    ELSE -1

\* <word>[:\s]*\$(amount) at position p; without the context word when word is NoneStr
DollarAmountAt(s, p, word) ==
    LET c == ContextEnd(s, p, word) IN
    IF c = -1 \/ ~(c < Len(s) /\ s[c + 1] = "$") \/ AmountEnd(s, c + 1) = -1 THEN <<>>
    ELSE <<SubSeq(s, c + 2, AmountEnd(s, c + 1))>>

\* <word>[:\s]*\$(amount)\s*[dash]\s*\$(amount) at position p
DollarRangeAt(s, p, word) ==
    LET c == ContextEnd(s, p, word) IN
    IF c = -1 \/ DollarAmountAt(s, c, NoneStr) = <<>> THEN <<>>
    ELSE LET d == SkipSpaces(s, AmountEnd(s, c + 1))
             g == SkipSpaces(s, d + 1)
         IN  IF d < Len(s) /\ s[d + 1] \in Dashes /\ DollarAmountAt(s, g, NoneStr) # <<>>
             THEN DollarAmountAt(s, c, NoneStr) \o DollarAmountAt(s, g, NoneStr)
             ELSE <<>>

\* <word>[:\s]*(\d{2,3})k at position p
KAmountAt(s, p, word) ==
    LET c == ContextEnd(s, p, word) IN
    IF c = -1 \/ KDigitsEnd(s, c) = -1 THEN <<>>
    ELSE <<SubSeq(s, c + 1, KDigitsEnd(s, c))>>

\* (\d{2,3})k\s*[dash]\s*(\d{2,3})k at position p
KRangeAt(s, p) ==
    IF KAmountAt(s, p, NoneStr) = <<>> THEN <<>>
    ELSE LET d == SkipSpaces(s, KDigitsEnd(s, p) + 1)
             g == SkipSpaces(s, d + 1)
         IN  IF d < Len(s) /\ s[d + 1] \in Dashes /\ KAmountAt(s, g, NoneStr) # <<>>
             THEN KAmountAt(s, p, NoneStr) \o KAmountAt(s, g, NoneStr)
             ELSE <<>>

\* (?<!401\s)(\d{2,3})k(?:\s|$) at position p
KAmountNot401At(s, p) ==
    LET e == KDigitsEnd(s, p) + 1 IN        \* the position after the k
    IF KDigitsEnd(s, p) = -1 THEN <<>>
    ELSE IF p >= 4 /\ SubSeq(s, p - 3, p - 1) = <<"4", "0", "1">> /\ IsSpace(s[p]) THEN <<>>
    ELSE IF e = Len(s) \/ IsSpace(s[e + 1]) THEN KAmountAt(s, p, NoneStr)
    ELSE <<>>

\* re.findall(pattern, text)[0]: the leftmost match, <<>> when there is none
FirstMatch(s, MatchAt(_, _)) ==
    LET ps == {p \in 0..Len(s) : MatchAt(s, p) # <<>>} IN
    IF ps = {} THEN <<>> ELSE MatchAt(s, CHOOSE p \in ps : \A q \in ps : p <= q)

\* the first match of each of salary_patterns, with 'k' in pattern.lower()
salary_patterns(s) ==
    << [match |-> FirstMatch(s, LAMBDA t, p : DollarRangeAt(t, p, NoneStr)), k |-> FALSE],
       [match |-> FirstMatch(s, LAMBDA t, p : DollarRangeAt(t, p, "salary")), k |-> FALSE],
       [match |-> FirstMatch(s, KRangeAt), k |-> TRUE],
       [match |-> FirstMatch(s, LAMBDA t, p : DollarAmountAt(t, p, "salary")), k |-> FALSE],
       [match |-> FirstMatch(s, LAMBDA t, p : DollarAmountAt(t, p, "compensation")),
        k |-> FALSE],
       [match |-> FirstMatch(s, LAMBDA t, p : DollarAmountAt(t, p, "pay")), k |-> FALSE],
       [match |-> FirstMatch(s, LAMBDA t, p : KAmountAt(t, p, "salary")), k |-> TRUE],
       [match |-> FirstMatch(s, KAmountNot401At), k |-> TRUE] >>

\* the returned dict; NONE for a key it does not hold
SalaryInfo(min, max, amount) == [min |-> min, max |-> max, amount |-> amount]

extract_salary_regex(s) ==
    LET ms == salary_patterns(s)
        ks == {i \in 1..Len(ms) : ms[i].match # <<>>}
    IN  IF ks = {} THEN SalaryInfo(NONE, NONE, NONE)
        ELSE LET m == ms[CHOOSE i \in ks : \A j \in ks : i <= j]
                 unit == IF m.k THEN 1000 ELSE 1
             IN  IF Len(m.match) = 2
                 THEN SalaryInfo(ToInt(m.match[1]) * unit, ToInt(m.match[2]) * unit, NONE)
                 ELSE IF 20000 <= ToInt(m.match[1]) * unit
                         /\ ToInt(m.match[1]) * unit <= 1000000
                 THEN SalaryInfo(NONE, NONE, ToInt(m.match[1]) * unit)
                 ELSE SalaryInfo(NONE, NONE, NONE)

(***************************************************************************)
(* Inputs of extract_salary_regex: a text is a concatenation of pieces     *)
(***************************************************************************)
SalaryPieces ==
    { <<"$", "5", "0">>, <<"$", "1", "2", "0", ",", "0", "0", "0">>,
      <<"$", "2", ",", "0", "0", "0", ",", "0", "0", "0">>,
      <<"5", "0", "k">>, <<"1", "5", "K">>, <<"4", "0", "1", "k">>, <<"4", "0", "1", " ">>,
      <<"-">>, <<"endash">>, <<" ">>, <<"Salary", ":">>, <<"pay">>, <<"x">> }

RECURSIVE SalaryTextsOf(_)
SalaryTextsOf(n) ==
    IF n = 0 THEN {<<>>}
    ELSE {t \o q : <<t, q>> \in SalaryTextsOf(n - 1) \X SalaryPieces}

SalaryTexts == UNION {SalaryTextsOf(n) : n \in 0..MaxSalaryPieces}

InitSalary ==
    /\ RerankIdle /\ IndexIdle /\ found_sections = Idle
    /\ pc = "start"
    /\ text \in SalaryTexts
    /\ salary_info = SalaryInfo(NONE, NONE, NONE)
    /\ quality_score = Idle
    /\ LoopIdle /\ users = Idle
    /\ strategy = Idle /\ processor = Idle /\ chunks = Idle
    /\ raw_text = Idle /\ cleaned = Idle
    /\ jobs = Idle /\ request = Idle /\ filtered_jobs = Idle
    /\ chunk_results = Idle /\ aggregated_jobs = Idle

ExtractSalary ==
    /\ pc = "start"
    /\ salary_info' = extract_salary_regex(text)
    /\ UNCHANGED <<quality_score, loopVars, users>>
    /\ pc' = "done"
    /\ UNCHANGED <<text, strategy, processor, chunks, raw_text, cleaned, jobs, request,
                   filtered_jobs, chunk_results, aggregated_jobs, rerankVars, indexVars,
                   found_sections>>

NextSalary == ExtractSalary

SpecSalary == InitSalary /\ [][NextSalary]_vars

SaneSalary(x) == x # NONE => (20000 <= x /\ x <= 1000000)

\* C23: every value extract_salary_regex returns lies within 20,000 to 1,000,000, and
\* the result holds a {min, max} pair or a single amount, never both
C23_SalaryValuesSane ==
    pc = "done" =>
        /\ SaneSalary(salary_info.min)
        /\ SaneSalary(salary_info.max)
        /\ SaneSalary(salary_info.amount)
        /\ (salary_info.min = NONE) = (salary_info.max = NONE)
        /\ ~(salary_info.min # NONE /\ salary_info.amount # NONE)


(***************************************************************************)
(* Properties of _combine_chunk_texts (SpecAgg)                            *)
(***************************************************************************)
\* the first place at which the text t stands in the text s, 0 when it stands nowhere
FirstPlaceOf(t, s) ==
    LET ps == {i \in 1..(Len(s) - Len(t) + 1) : SubSeq(s, i, i + Len(t) - 1) = t} IN
    IF ps = {} THEN 0 ELSE CHOOSE i \in ps : \A j \in ps : i <= j

\* C24: for every non-empty group of hits _combine_chunk_texts returns, without raising,
\* a text that holds the text of every chunk of the group, the texts ordered by
\* (section priority, chunk_index), with no run of three newlines
C24_CombinedTextReturned ==
    (pc # "start" /\ chunk_results # <<>>) =>
        /\ pc = "done"
        /\ \A id \in GroupedIds :
               \E i \in AggregatedOf(id) :
                   LET combined == aggregated_jobs[i].metadata.text
                       cs == SortByKey(HitsOfJob(id))
                   IN  /\ ~IsSubstr(<<"\n", "\n", "\n">>, combined)
                       /\ \A k \in 1..Len(cs) :
                              FirstPlaceOf(Strip(cs[k].metadata.text), combined) > 0
                       /\ \A k \in 1..(Len(cs) - 1) :
                              FirstPlaceOf(Strip(cs[k].metadata.text), combined)
                                  <= FirstPlaceOf(Strip(cs[k + 1].metadata.text), combined)


(***************************************************************************)
(* Properties of the overlapping strategy (SpecChunks)                     *)
(***************************************************************************)
\* C25: for a text of more than max_chunk_size words, create_chunks with the overlapping
\* strategy returns more than one chunk; every returned chunk is a segment of the given
\* job with at most max_chunk_size words, and with at least min_chunk_size words unless
\* it holds the whole text
C25_LongTextGivesSegments ==
    (pc = "done" /\ strategy = "overlapping" /\ Len(Words(text)) > processor.max_chunk_size)
    => /\ Len(chunks) > 1
       /\ \A i \in 1..Len(chunks) :
              /\ chunks[i].chunk_type = "segment"
              /\ chunks[i].parent_job_id = JobId
              /\ chunks[i].word_count <= processor.max_chunk_size
              /\ \/ chunks[i].word_count >= processor.min_chunk_size
                 \/ chunks[i].word_count = Len(Words(text))


(***************************************************************************)
(* _calculate_chunk_quality on texts made of pieces: words, technical      *)
(* keywords, list markup, separators and a run of twenty words             *)
(***************************************************************************)
TwentyWords == Join([i \in 1..20 |-> <<"w">>], <<" ">>)

QualityPieces ==
    { <<"x">>, <<" ">>, <<"\n">>, <<"-">>, <<"-", " ">>, <<"1", ".", " ">>, <<"=", "=", "=">>,
      <<"experience", " ", "required", " ", "skills">>,
      <<"Responsibilities", " ", "qualifications", " ">>,
      TwentyWords }

RECURSIVE QualityTextsOf(_)
QualityTextsOf(n) ==
    IF n = 0 THEN {<<>>}
    ELSE {t \o q : <<t, q>> \in QualityTextsOf(n - 1) \X QualityPieces}

QualityTexts == UNION {QualityTextsOf(n) : n \in 0..MaxQualityPieces}

InitQuality ==
    /\ RerankIdle /\ IndexIdle /\ found_sections = Idle
    /\ pc = "start"
    /\ text \in QualityTexts
    /\ quality_score = 0
    /\ salary_info = Idle
    /\ LoopIdle /\ users = Idle
    /\ strategy = Idle /\ processor = Idle /\ chunks = Idle
    /\ raw_text = Idle /\ cleaned = Idle
    /\ jobs = Idle /\ request = Idle /\ filtered_jobs = Idle
    /\ chunk_results = Idle /\ aggregated_jobs = Idle

CalculateChunkQuality ==
    /\ pc = "start"
    /\ quality_score' = _calculate_chunk_quality(text)
    /\ pc' = "done"
    /\ UNCHANGED <<text, strategy, processor, chunks, raw_text, cleaned, jobs, request,
                   filtered_jobs, chunk_results, aggregated_jobs, rerankVars, indexVars,
                   found_sections, salary_info, loopVars, users>>

NextQuality == CalculateChunkQuality

SpecQuality == InitQuality /\ [][NextQuality]_vars

\* the scoring formula, in tenths of tenths of 1.0: the product of the two penalties,
\* then one tenth for every technical keyword and for list markup, then the clamp
FormulaValue(s) ==
    LET penalties == (IF Len(Words(s)) < 20 THEN 5 ELSE 10) * (IF LowQuality(s) THEN 7 ELSE 10)
        rewards == 10 * (TechCount(s) + (IF HasListMarkup(s) THEN 1 ELSE 0))
    IN  (Max(0, Min(100, penalties + rewards)) * ONE) \div 100

\* C26: for every chunk text _calculate_chunk_quality returns the value of the scoring
\* formula, and the result lies in [0, 1]
C26_QualityIsFormulaValue ==
    pc = "done" =>
        /\ quality_score = FormulaValue(text)
        /\ 0 <= quality_score /\ quality_score <= ONE

\* C26 (amended): for every chunk text that is not empty _calculate_chunk_quality returns
\* the value of the scoring formula; for the empty text it returns 0.0; the result lies
\* in [0, 1]
C26_QualityIsFormulaValueUnlessEmpty ==
    pc = "done" =>
        /\ text # <<>> => quality_score = FormulaValue(text)
        /\ text = <<>> => quality_score = 0
        /\ 0 <= quality_score /\ quality_score <= ONE

\* a text of twenty words with a technical keyword: the sum 1.1 is clamped to 1.0
C26_Witness ==
    /\ pc = "done"
    /\ Len(Words(text)) >= 20
    /\ TechCount(text) >= 1
    /\ quality_score = ONE


(***************************************************************************)
(* Properties of embed_and_index on return (SpecIndex)                     *)
(***************************************************************************)
\* the upsert calls that succeeded and carry the chunk id
SucceededWith(id) ==
    {u \in 1..Len(upserts) :
        upserts[u].ok /\ \E v \in 1..Len(upserts[u].vectors) : upserts[u].vectors[v] = id}

\* C27: when embed_and_index has returned normally, every chunk whose embedding was
\* generated is in exactly one upsert call that succeeded, also when earlier upsert
\* calls with its batch failed
C27_EmbeddedChunksUpsertedOnce ==
    pc = "returned" =>
        \A k \in 1..Len(all_chunks) :
            ChunkId(all_chunks[k]) \notin failed_chunks
                => Cardinality(SucceededWith(ChunkId(all_chunks[k]))) = 1

\* a return after an upsert call that failed: a later call carried its vectors
C27_Witness ==
    /\ pc = "returned"
    /\ \E u \in 1..Len(upserts) :
           /\ ~upserts[u].ok
           /\ \A v \in 1..Len(upserts[u].vectors) :
                  Cardinality(SucceededWith(upserts[u].vectors[v])) = 1


(***************************************************************************)
(* process_job_description: clean_text, then create_chunks on its result   *)
(***************************************************************************)
process_job_description(raw, job_id, chunking_strategy, p) ==
    IF raw = <<>> THEN <<>>
    ELSE LET cleaned_text == clean_text(raw) IN
         IF cleaned_text = <<>> THEN <<>>
         ELSE create_chunks(cleaned_text, job_id, chunking_strategy, p)

InitProcess ==
    /\ RerankIdle /\ IndexIdle /\ found_sections = Idle /\ OtherIdle
    /\ pc = "start"
    /\ raw_text \in ChunkTexts
    /\ strategy \in Strategies
    /\ processor \in Processors
    /\ cleaned = <<>>
    /\ chunks = <<>>
    /\ text = Idle
    /\ jobs = Idle /\ request = Idle /\ filtered_jobs = Idle
    /\ chunk_results = Idle /\ aggregated_jobs = Idle

ProcessJobDescription ==
    /\ pc = "start"
    /\ cleaned' = clean_text(raw_text)
    /\ chunks' = process_job_description(raw_text, JobId, strategy, processor)
    /\ pc' = "done"
    /\ UNCHANGED <<raw_text, text, strategy, processor, jobs, request, filtered_jobs,
                   chunk_results, aggregated_jobs, rerankVars, indexVars, found_sections,
                   otherVars>>

NextProcess == ProcessJobDescription

SpecProcess == InitProcess /\ [][NextProcess]_vars

LoopTexts == UNION {TextsOfLines(n) : n \in 0..MaxLoopLines}

LoopProcessors ==
    {[max_chunk_size |-> m, overlap_size |-> o, min_chunk_size |-> n] :
        <<m, o, n>> \in (1..MaxLoopSize) \X (0..(MaxLoopSize + 1)) \X (0..1)}

\* ws[a:b] of Python, a or b negative counting from the end
PySlice(ws, a, b) ==
    LET n == Len(ws)
        lo == IF a < 0 THEN Max(n + a, 0) ELSE Min(a, n)
        hi == IF b < 0 THEN Max(n + b, 0) ELSE Min(b, n)
    IN  SubSeq(ws, lo + 1, hi)

\* a while loop over n words whose start advances takes at most n iterations;
\* an iteration beyond that is left out of the model
MaxIterations(words) == Len(words) + 1

loopFrame == <<text, strategy, processor, raw_text, cleaned, jobs, request,
               filtered_jobs, chunk_results, aggregated_jobs,
               rerankVars, indexVars, found_sections, salary_info, quality_score, users>>

InitLoops ==
    /\ RerankIdle /\ IndexIdle /\ found_sections = Idle
    /\ salary_info = Idle /\ quality_score = Idle /\ users = Idle
    /\ pc = "start"
    /\ text \in LoopTexts
    /\ strategy \in Strategies
    /\ processor \in LoopProcessors
    /\ chunks = <<>>
    /\ window_start = 0 /\ next_chunk_index = 0 /\ next_sub_index = 0 /\ section_i = 0
    /\ raw_text = Idle /\ cleaned = Idle
    /\ jobs = Idle /\ request = Idle /\ filtered_jobs = Idle
    /\ chunk_results = Idle /\ aggregated_jobs = Idle

\* the section the for loop of _create_section_chunks is at
LoopSections == identify_sections(text)
LoopSectionType == LoopSections[section_i + 1].key
LoopSectionWords == Words(LoopSections[section_i + 1].value)

\* create_chunks up to the first loop test
EnterCreateChunks ==
    /\ pc = "start"
    /\ LET by_sections == \/ strategy = "sections"
                          \/ strategy = "hybrid" /\ Len(LoopSections) > 1
           words == Words(text)
       IN  IF by_sections
           THEN /\ pc' = "section_loop"
                /\ chunks' = <<>>
                /\ section_i' = 0
                /\ UNCHANGED <<window_start, next_chunk_index, next_sub_index>>
           ELSE IF Len(words) <= processor.max_chunk_size
           THEN /\ pc' = "done"
                /\ chunks' = _filter_chunks(
                       <<TextChunk(text, "full", 0, JobId, Len(words), 0, 0,
                                   _calculate_chunk_quality(text), NoneStr)>>, processor)
                /\ UNCHANGED loopVars
           ELSE /\ pc' = "overlap_loop"
                /\ chunks' = <<>>
                /\ window_start' = 0
                /\ next_chunk_index' = 0
                /\ UNCHANGED <<next_sub_index, section_i>>
    /\ UNCHANGED loopFrame

\* one pass through the body of the while loop of _create_overlapping_chunks
OverlapIterate ==
    /\ pc = "overlap_loop"
    /\ LET words == Words(text)
           end == Min(window_start + processor.max_chunk_size, Len(words))
           chunk_words == PySlice(words, window_start, end)
           chunk_text == Join(chunk_words, <<" ">>)
           overlap_start == IF window_start > 0
                            THEN Max(0, window_start - processor.overlap_size) ELSE 0
           overlap_end == IF end < Len(words)
                          THEN Min(end + processor.overlap_size, Len(words)) ELSE end
       IN  /\ window_start < Len(words)
           /\ next_chunk_index < MaxIterations(words)
           /\ chunks' = Append(chunks,
                  TextChunk(chunk_text, "segment", next_chunk_index, JobId,
                            Len(chunk_words), overlap_start, overlap_end,
                            _calculate_chunk_quality(chunk_text), NoneStr))
           /\ window_start' = window_start + processor.max_chunk_size - processor.overlap_size
           /\ next_chunk_index' = next_chunk_index + 1
    /\ pc' = pc
    /\ UNCHANGED <<next_sub_index, section_i>>
    /\ UNCHANGED loopFrame

\* the while test of _create_overlapping_chunks fails: create_chunks filters and returns
OverlapReturn ==
    /\ pc = "overlap_loop"
    /\ ~(window_start < Len(Words(text)))
    /\ chunks' = _filter_chunks(chunks, processor)
    /\ pc' = "done"
    /\ UNCHANGED loopVars
    /\ UNCHANGED loopFrame

\* one item of the for loop of _create_section_chunks, up to the call of
\* _split_long_section
SectionIterate ==
    /\ pc = "section_loop"
    /\ section_i < Len(LoopSections)
    /\ LET section_content == LoopSections[section_i + 1].value
           word_count == Len(LoopSectionWords)
       IN  IF section_content = <<>> \/ word_count < processor.min_chunk_size
           THEN /\ section_i' = section_i + 1
                /\ UNCHANGED <<pc, chunks, window_start, next_sub_index>>
           ELSE IF word_count <= processor.max_chunk_size
           THEN /\ chunks' = Append(chunks,
                       TextChunk(section_content, LoopSectionType, section_i, JobId,
                                 word_count, 0, 0,
                                 _calculate_chunk_quality(section_content),
                                 Title(LoopSectionType)))
                /\ section_i' = section_i + 1
                /\ UNCHANGED <<pc, window_start, next_sub_index>>
           ELSE /\ pc' = "split_loop"
                /\ window_start' = 0
                /\ next_sub_index' = 0
                /\ UNCHANGED <<chunks, section_i>>
    /\ UNCHANGED next_chunk_index
    /\ UNCHANGED loopFrame

\* the for loop of _create_section_chunks is over: the full chunk, then create_chunks
\* filters and returns
SectionReturn ==
    /\ pc = "section_loop"
    /\ ~(section_i < Len(LoopSections))
    /\ LET full_text_words == Words(text)
       IN  chunks' = _filter_chunks(
               IF Len(full_text_words) >= processor.min_chunk_size
               THEN Append(chunks, TextChunk(text, "full", Len(chunks), JobId,
                                             Len(full_text_words), 0, 0,
                                             (8 * ONE) \div 10, NoneStr))
               ELSE chunks, processor)
    /\ pc' = "done"
    /\ UNCHANGED loopVars
    /\ UNCHANGED loopFrame

\* one pass through the body of the while loop of _split_long_section; its chunks
\* go to the list of _create_section_chunks at once, as chunks.extend does on return
SplitIterate ==
    /\ pc = "split_loop"
    /\ LET words == LoopSectionWords
           end == Min(window_start + processor.max_chunk_size, Len(words))
           chunk_words == PySlice(words, window_start, end)
           chunk_text == Join(chunk_words, <<" ">>)
       IN  /\ window_start < Len(words)
           /\ next_sub_index < MaxIterations(words)
           /\ chunks' = Append(chunks,
                  TextChunk(chunk_text, LoopSectionType \o "_part",
                            section_i * 100 + next_sub_index, JobId, Len(chunk_words),
                            0, 0, _calculate_chunk_quality(chunk_text),
                            Title(LoopSectionType)))
           /\ window_start' = window_start + processor.max_chunk_size - processor.overlap_size
           /\ next_sub_index' = next_sub_index + 1
    /\ pc' = pc
    /\ UNCHANGED <<next_chunk_index, section_i>>
    /\ UNCHANGED loopFrame

\* the while test of _split_long_section fails: back to the for loop
SplitReturn ==
    /\ pc = "split_loop"
    /\ ~(window_start < Len(LoopSectionWords))
    /\ pc' = "section_loop"
    /\ section_i' = section_i + 1
    /\ UNCHANGED <<chunks, window_start, next_chunk_index, next_sub_index>>
    /\ UNCHANGED loopFrame

NextLoops ==
    \/ EnterCreateChunks
    \/ OverlapIterate
    \/ OverlapReturn
    \/ SectionIterate
    \/ SectionReturn
    \/ SplitIterate
    \/ SplitReturn

\* the call runs on one thread that is never suspended for good
SpecLoops == InitLoops /\ [][NextLoops]_vars /\ WF_vars(NextLoops)

\* followed step by step, a call that returns gives the list create_chunks gives
LoopsAgreeWithCreateChunks ==
    pc = "done" => chunks = create_chunks(text, JobId, strategy, processor)

\* C29: for every text and every max_chunk_size, overlap_size and min_chunk_size
\* the constructor accepts, create_chunks terminates: each iteration of the window
\* loops of _create_overlapping_chunks and _split_long_section advances start, so
\* that start reaches the end of the words (a loop whose start stays or moves back
\* has start < len(words) for ever)
C29_LoopsAdvanceStart ==
    [][(pc \in {"overlap_loop", "split_loop"} /\ pc' = pc)
           => window_start' > window_start]_vars


(***************************************************************************)
(* MongoDBService.save_job behind POST /users/{user_id}/saved-jobs         *)
(* (SpecSave)                                                              *)
(*                                                                         *)
(* save_job_for_user is a plain def, which FastAPI runs on a thread of its *)
(* pool, so several requests are inside save_job at once.  Each request c  *)
(* has its own position pc[c]; one step is one operation on the users      *)
(* collection, which MongoDB performs atomically on the document:          *)
(*   "create_user"  before create_user_if_not_exists                       *)
(*   "find_one"     before the find_one that looks for the job             *)
(*   "update_one"   before the update_one that pushes the job              *)
(*   "http_201"     the route has answered 201                             *)
(*   "http_409"     the route has answered 409                             *)
(* The database answers every operation (no PyMongoError).                 *)
(***************************************************************************)
Calls == 1..MaxCalls

SavedIds == {JobName(i) : i \in 1..MaxSavedIds}

UserId == "user_1"

\* the documents of the collection that match {"user_id": user_id}
UserDocs(user_id) == {doc \in users : doc.user_id = user_id}

\* the saved_jobs entries with the given job_id in the user's document
SavedEntries(user_id, job_id) ==
    UNION {{<<doc, i>> : i \in {j \in 1..Len(doc.saved_jobs) :
                                    doc.saved_jobs[j].job_id = job_id}} :
           doc \in UserDocs(user_id)}

InitSave ==
    /\ RerankIdle /\ IndexIdle /\ found_sections = Idle
    /\ salary_info = Idle /\ quality_score = Idle /\ LoopIdle
    /\ pc = [c \in Calls |-> "create_user"]
    /\ request \in [Calls -> [job_id : SavedIds]]
    /\ users = {}
    /\ text = Idle /\ strategy = Idle /\ processor = Idle /\ chunks = Idle
    /\ raw_text = Idle /\ cleaned = Idle
    /\ jobs = Idle /\ filtered_jobs = Idle
    /\ chunk_results = Idle /\ aggregated_jobs = Idle

saveFrame == <<text, strategy, processor, chunks, raw_text, cleaned, jobs, request,
               filtered_jobs, chunk_results, aggregated_jobs,
               rerankVars, indexVars, found_sections, salary_info, quality_score, loopVars>>

\* update_one({"user_id": user_id}, {"$setOnInsert": user_doc}, upsert=True)
CreateUserIfNotExists(c) ==
    /\ pc[c] = "create_user"
    /\ users' = IF UserDocs(UserId) = {}
                THEN users \cup {[user_id |-> UserId, saved_jobs |-> <<>>]}
                ELSE users
    /\ pc' = [pc EXCEPT ![c] = "find_one"]
    /\ UNCHANGED saveFrame

\* find_one({"user_id": user_id, "saved_jobs.job_id": job_id}); a document found
\* raises "already saved", which the route answers with 409
FindOne(c) ==
    /\ pc[c] = "find_one"
    /\ LET existing == SavedEntries(UserId, request[c].job_id) # {}
       IN  pc' = [pc EXCEPT ![c] = IF existing THEN "http_409" ELSE "update_one"]
    /\ UNCHANGED users
    /\ UNCHANGED saveFrame

\* update_one({"user_id": user_id}, {"$push": {"saved_jobs": saved_job}}); the
\* document exists, so modified_count is 1 and the route answers 201
UpdateOne(c) ==
    /\ pc[c] = "update_one"
    /\ users' = {IF doc.user_id = UserId
                 THEN [doc EXCEPT !.saved_jobs =
                          Append(@, [job_id |-> request[c].job_id, status |-> "saved"])]
                 ELSE doc : doc \in users}
    /\ pc' = [pc EXCEPT ![c] = "http_201"]
    /\ UNCHANGED saveFrame

NextSave == \E c \in Calls : CreateUserIfNotExists(c) \/ FindOne(c) \/ UpdateOne(c)

SpecSave == InitSave /\ [][NextSave]_vars

\* C30: whatever the interleaving of concurrent save_job calls for one user_id and
\* job_id, saved_jobs never holds two entries with that job_id: at most one of the
\* calls adds an entry (and answers 201), every other call that has finished has
\* failed with 'already saved' (409)
C30_NoDuplicateSavedJob ==
    \A job_id \in SavedIds :
        /\ Cardinality(SavedEntries(UserId, job_id)) <= 1
        /\ Cardinality({c \in Calls : request[c].job_id = job_id
                                        /\ pc[c] = "http_201"}) <= 1

====
